---- MODULE Spec2Model ----
(***************************************************************************)
(* wluma: one output's closed loop.  The brightness controller             *)
(* (brightness/controller.rs), the adaptive and the manual predictor       *)
(* (predictor/controller/{adaptive,manual}.rs), the ALS producer           *)
(* (als/controller.rs) and the three channels between them.  Each task is  *)
(* its own thread (main.rs): the predictor's adjust() is split between its  *)
(* drain of the user-edit channel and the branch of process(), where the   *)
(* controller can run in between; the controller's step() reads the        *)
(* actuator, drains and acts in one action.                                *)
(***************************************************************************)
EXTENDS Integers, Sequences, FiniteSets, TLC

(* ---- Option<T>: None is the empty sequence, Some(x) the sequence <<x>> ---- *)
None == <<>>

Some(x) == <<x>>

unwrap(o) == o[1]

(* ---- program constants ---- *)
TRANSITION_MAX_MS == 200

PENDING_COOLDOWN_RESET == 15

NEXT_ALS_COOLDOWN_RESET == 15

(* ---- bounds of the model ---- *)
\* the most values a channel holds before the user and the senders of the
\* ALS and of the predictor wait for its reader (main.rs builds the channels
\* unbounded)
MaxQueue == 1

\* max_brightness reported by the actuator; the user can set 0..MaxBrightness
MaxBrightness == 2

\* the lumas the capturer reports in the closed loop: a black and a white screen
Lumas == {0, 100}

\* min_brightness of a backlight or ddcutil output (config/mod.rs)
MinBrightness == 1

(* ---- the lux labels, ordered as Rust orders the strings ---- *)
LuxRank == [bright |-> 0, dark |-> 1, dim |-> 2]

Entry(lx, lm, b) == [lux |-> lx, luma |-> lm, brightness |-> b]

VARIABLES
    \* the actuator (sysfs file / VCP feature 0x10) and its limits
    actuator, min_brightness, max_brightness,
    \* brightness::Controller
    current, target,
    \* the channels
    prediction_ch, user_ch, als_ch,
    \* predictor::Controller (adaptive; the manual one shares the lux debouncer
    \* and pending_cooldown) and its position in adjust()
    variant, pending_cooldown, pending, entries, initial_brightness,
    last_als, next_als, next_als_cooldown,
    last_brightness, pre_reduction_brightness, thresholds,
    pr_pc, lux, luma, user_changed_brightness,
    \* predictor::Data: whether the predictor loads and saves it, the
    \* output_name field beside `entries`, and the data files on disk
    stateful, output_name, files,
    \* DDC/CI: main()'s position in the initialisation of the outputs, the
    \* position of each ddcutil output's backlight thread, and the holder of
    \* DDC_MUTEX
    main_pc, ddc_pc, DDC_MUTEX,
    \* brightness::Backlight: its fields has_write_permission, current (here
    \* `cached`) and pending_dbus_write, whether the inotify queue holds an
    \* event, and the SetBrightness messages logind has not yet carried out
    has_write_permission, cached, pending_dbus_write, events, dbus_ch,
    \* history: the brightness was written from outside since the controller
    \* last published a value
    external,
    \* a channel of channel_ext.rs with its producer and its consumer: the
    \* queue, the consumer's position in recv_maybe_last, the messages
    \* recv_last still discards, the value last returned, and (history) the
    \* number of values sent and the newest value when len() was read
    receiver,
    \* frame::capturer::Capturer and its Wayland connection: the position in
    \* run()'s loop, is_processing_frame, whether `output` is bound, the
    \* capture requests the compositor has not yet ended, and (history) the
    \* numbers of requests, of Ready and Cancel events and of adjust() calls
    capturer,
    \* als::Controller with the channels of value_txs: the position in step()
    \* (0: als.get(), k: the send to the k-th channel), the label being sent,
    \* the queue of each channel, and (history) the labels polled and the
    \* labels each predictor has received; with them the thresholds of the
    \* Als behind it and the raw value it last read
    als_controller,
    \* frame::vulkan::Vulkan: whether the work image exists (`image`), its
    \* image_resolution, whether an assert of luma_percent has failed, and
    \* (history) the number of frames processed, the resolution of the last
    \* one and the luma returned for it
    vulkan,
    \* history variables (no code reads them)
    bc_did, prediction_stale, target_stale,
    pr_did, edit_free, last_edit, run_label, run_len, lux_changed, before, learned

actVars == <<actuator, min_brightness, max_brightness>>

bcVars == <<current, target>>

chVars == <<prediction_ch, user_ch, als_ch>>

prVars == <<variant, pending_cooldown, pending, entries, initial_brightness,
            last_als, next_als, next_als_cooldown,
            last_brightness, pre_reduction_brightness, thresholds,
            pr_pc, lux, luma, user_changed_brightness>>

bcHist == <<bc_did, prediction_stale, target_stale>>

prHist == <<pr_did, edit_free, last_edit, run_label, run_len, lux_changed,
            before, learned>>

dataVars == <<stateful, output_name, files>>

ddcVars == <<main_pc, ddc_pc, DDC_MUTEX>>

blVars == <<has_write_permission, cached, pending_dbus_write, events, dbus_ch,
            external>>

\* the objects beside one output's closed loop
otherVars == <<receiver, capturer, als_controller, vulkan>>

vars == <<actVars, bcVars, chVars, prVars, dataVars, ddcVars, blVars, otherVars,
          bcHist, prHist>>

(* ======================= channel_ext.rs ======================= *)

\* ReceiverExt::recv_maybe_last: None on an empty channel, else the newest
\* value; the channel is empty afterwards
recv_maybe_last(ch) == IF ch = <<>> THEN None ELSE Some(ch[Len(ch)])

(* ======================= brightness/controller.rs ======================= *)

Target(d, s) == [desired |-> d, step |-> s]

\* a faulty division that rounds down
div_floor(a, b) == a \div b

\* u64::div_ceil
div_ceil(a, b) == (a + b - 1) \div b

\* a faulty reached that wants the desired value exactly
reached_exact(t, cur) == cur = t.desired

\* Target::reached
reached(t, cur) ==
    \/ (t.step > 0 /\ cur >= t.desired)
    \/ (t.step < 0 /\ cur <= t.desired)

\* u64::saturating_add_signed (the upper saturation is out of the model's range)
saturating_add_signed(cur, st) == IF cur + st < 0 THEN 0 ELSE cur + st

\* a faulty update_target that drops the Target when desired is the current
\* brightness
update_target_cancel(tgt, cur, desired) ==
    IF tgt # None /\ unwrap(tgt).desired = desired THEN tgt
    ELSE IF desired = cur THEN None
    ELSE IF desired > cur
         THEN Some(Target(desired, div_ceil(desired - cur, TRANSITION_MAX_MS)))
         ELSE Some(Target(desired, 0 - div_ceil(cur - desired, TRANSITION_MAX_MS)))

\* a faulty update_target whose step is rounded down
update_target_floor(tgt, cur, desired) ==
    IF tgt # None /\ unwrap(tgt).desired = desired THEN tgt
    ELSE IF desired = cur THEN tgt
    ELSE IF desired > cur
         THEN Some(Target(desired, div_floor(desired - cur, TRANSITION_MAX_MS)))
         ELSE Some(Target(desired, 0 - div_floor(cur - desired, TRANSITION_MAX_MS)))

\* Controller::update_target: the Target after update_target(desired)
update_target(tgt, cur, desired) ==
    IF tgt # None /\ unwrap(tgt).desired = desired THEN tgt
    ELSE IF desired = cur THEN tgt
    ELSE IF desired > cur
         THEN Some(Target(desired, div_ceil(desired - cur, TRANSITION_MAX_MS)))
         ELSE Some(Target(desired, 0 - div_ceil(cur - desired, TRANSITION_MAX_MS)))

\* a faulty clamp that forgets the lower limit
clamp_no_floor(v, lo, hi) == IF v > hi THEN hi ELSE v

\* Ord::clamp (lo <= hi; Rust panics otherwise, before anything is written)
clamp(v, lo, hi) == IF v < lo THEN lo ELSE IF v > hi THEN hi ELSE v

\* Backlight::set / DdcUtil::set: the value written and returned
set(value, lo, hi) == clamp(value, lo, hi)

(* ======================= predictor/controller/mod.rs ======================= *)

abs(x) == IF x < 0 THEN 0 - x ELSE x

\* faulty points that take the entries of every lux
points_all(es, lx, lm) ==
    [i \in 1..Len(es) |-> [b |-> es[i].brightness, d |-> abs(lm - es[i].luma)]]

\* the (brightness, distance) points of the entries whose lux is lx
points(es, lx, lm) ==
    [i \in 1..Len(SelectSeq(es, LAMBDA e: e.lux = lx)) |->
        [b |-> SelectSeq(es, LAMBDA e: e.lux = lx)[i].brightness,
         d |-> abs(lm - SelectSeq(es, LAMBDA e: e.lux = lx)[i].luma)]]

(* ---- f64 arithmetic, as far as interpolate uses it.  A natural number of
   any size is the sequence of its digits in base LimbBase, lowest first
   (<<>> is 0); a double >= 0 is [m, e] of value m * 2^e with m below 2^53.
   Every operation computes the exact result and rounds it to 53
   significant bits, to nearest, ties to even, as IEEE 754 does; the values
   interpolate meets are far from overflow and underflow. ---- *)
LimbBase == 2^15

RECURSIVE big(_)
big(n) == IF n = 0 THEN <<>> ELSE <<n % LimbBase>> \o big(n \div LimbBase)

RECURSIVE big_to_u64(_)
big_to_u64(a) == IF a = <<>> THEN 0 ELSE a[1] + LimbBase * big_to_u64(Tail(a))

limb(a, i) == IF i <= Len(a) THEN a[i] ELSE 0

\* a without its leading zero digits
RECURSIVE strip(_)
strip(a) ==
    IF a = <<>> \/ a[Len(a)] # 0 THEN a ELSE strip(SubSeq(a, 1, Len(a) - 1))

RECURSIVE big_add_from(_, _, _, _)
big_add_from(a, b, i, carry) ==
    IF i > Len(a) /\ i > Len(b) THEN (IF carry = 0 THEN <<>> ELSE <<carry>>)
    ELSE <<(limb(a, i) + limb(b, i) + carry) % LimbBase>>
         \o big_add_from(a, b, i + 1,
                         (limb(a, i) + limb(b, i) + carry) \div LimbBase)

big_add(a, b) == big_add_from(a, b, 1, 0)

\* a - b for a >= b
RECURSIVE big_sub_from(_, _, _, _)
big_sub_from(a, b, i, borrow) ==
    IF i > Len(a) THEN <<>>
    ELSE <<(limb(a, i) - limb(b, i) - borrow + LimbBase) % LimbBase>>
         \o big_sub_from(a, b, i + 1,
                IF limb(a, i) - limb(b, i) - borrow < 0 THEN 1 ELSE 0)

big_sub(a, b) == strip(big_sub_from(a, b, 1, 0))

RECURSIVE big_less_from(_, _, _)
big_less_from(a, b, i) ==
    IF i = 0 THEN FALSE
    ELSE IF a[i] # b[i] THEN a[i] < b[i]
    ELSE big_less_from(a, b, i - 1)

big_less(a, b) ==
    IF Len(a) # Len(b) THEN Len(a) < Len(b) ELSE big_less_from(a, b, Len(a))

\* a * k for a digit k
RECURSIVE big_mul_small(_, _, _, _)
big_mul_small(a, k, i, carry) ==
    IF i > Len(a) THEN (IF carry = 0 THEN <<>> ELSE <<carry>>)
    ELSE <<(a[i] * k + carry) % LimbBase>>
         \o big_mul_small(a, k, i + 1, (a[i] * k + carry) \div LimbBase)

RECURSIVE big_mul_from(_, _, _)
big_mul_from(a, b, j) ==
    IF j > Len(b) THEN <<>>
    ELSE big_add(big_mul_small(a, b[j], 1, 0),
                 <<0>> \o big_mul_from(a, b, j + 1))

big_mul(a, b) == strip(big_mul_from(a, b, 1))

RECURSIVE bit_length(_)
bit_length(n) == IF n = 0 THEN 0 ELSE 1 + bit_length(n \div 2)

big_bits(a) ==
    IF a = <<>> THEN 0 ELSE 15 * (Len(a) - 1) + bit_length(a[Len(a)])

\* a * 2^k
big_shl(a, k) ==
    IF a = <<>> THEN <<>>
    ELSE strip([i \in 1..(k \div 15) |-> 0]
               \o big_mul_small(a, 2^(k % 15), 1, 0))

\* a \div 2^k
big_shr(a, k) ==
    IF Len(a) <= k \div 15 THEN <<>>
    ELSE strip([i \in 1..(Len(a) - k \div 15) |->
                   limb(a, i + k \div 15) \div 2^(k % 15)
                   + (limb(a, i + 1 + k \div 15) % 2^(k % 15))
                     * 2^(15 - (k % 15))])

\* bit j of a (bit 0 is the last)
big_bit(a, j) == (limb(a, j \div 15 + 1) \div 2^(j % 15)) % 2 = 1

\* whether a bit of a below bit j is set
big_low_bits_set(a, j) ==
    \E i \in 1..Len(a): \/ i <= j \div 15 /\ a[i] # 0
                        \/ i = j \div 15 + 1 /\ a[i] % 2^(j % 15) # 0

F64Zero == [m |-> <<>>, e |-> 0]

\* n as f64 for an integer n below 2^31
f64_from(n) == [m |-> big(n), e |-> 0]

\* the double nearest to n * 2^e, ties to even; sticky says that the exact
\* value lies a little above n * 2^e (by less than 2^e)
f64_round(n, e, sticky) ==
    IF big_bits(n) <= 53 THEN [m |-> n, e |-> e]
    ELSE LET s == big_bits(n) - 53
             q == big_shr(n, s)
         IN [m |-> IF /\ big_bit(n, s - 1)
                      /\ \/ sticky
                         \/ big_low_bits_set(n, s - 1)
                         \/ q[1] % 2 = 1
                   THEN big_add(q, <<1>>) ELSE q,
             e |-> e + s]

f64_mul(x, y) ==
    IF x.m = <<>> \/ y.m = <<>> THEN F64Zero
    ELSE f64_round(big_mul(x.m, y.m), x.e + y.e, FALSE)

min(a, b) == IF a < b THEN a ELSE b

f64_add(x, y) ==
    IF x.m = <<>> THEN y
    ELSE IF y.m = <<>> THEN x
    ELSE IF x.e + big_bits(x.m) > y.e + big_bits(y.m) + 56 THEN x
    ELSE IF y.e + big_bits(y.m) > x.e + big_bits(x.m) + 56 THEN y
    ELSE f64_round(big_add(big_shl(x.m, x.e - min(x.e, y.e)),
                           big_shl(y.m, y.e - min(x.e, y.e))),
                   min(x.e, y.e), FALSE)

\* up to n more bits of the quotient st.r / d (st.r < d) behind the bits
\* st.q: the bits, the remainder, and how many bits were not needed
RECURSIVE quotient_bits(_, _, _)
quotient_bits(st, d, n) ==
    IF n = 0 \/ st.r = <<>> THEN [q |-> st.q, r |-> st.r, n |-> n]
    ELSE IF big_less(big_add(st.r, st.r), d)
         THEN quotient_bits([q |-> big_add(st.q, st.q),
                             r |-> big_add(st.r, st.r)], d, n - 1)
         ELSE quotient_bits([q |-> big_add(big_add(st.q, st.q), <<1>>),
                             r |-> big_sub(big_add(st.r, st.r), d)], d, n - 1)

\* x / y for y > 0: the significands are aligned so that the quotient lies
\* in [1, 2), then 55 bits of it are computed and rounded
f64_div(x, y) ==
    IF x.m = <<>> THEN F64Zero
    ELSE LET t == big_bits(x.m) - big_bits(y.m)
             n0 == IF t < 0 THEN big_shl(x.m, 0 - t) ELSE x.m
             d == IF t > 0 THEN big_shl(y.m, t) ELSE y.m
             low == IF big_less(n0, d) THEN 1 ELSE 0
             n == IF low = 1 THEN big_add(n0, n0) ELSE n0
             res == quotient_bits([q |-> <<1>>, r |-> big_sub(n, d)], d, 54)
         IN f64_round(res.q, x.e - y.e + t - low - (54 - res.n),
                      res.r # <<>>)

\* `as u64` of a double >= 0 (below 2^31 in the model): truncation
f64_to_u64(x) ==
    IF x.e >= 0 THEN big_to_u64(big_shl(x.m, x.e))
    ELSE big_to_u64(big_shr(x.m, 0 - x.e))

\* other_distances: the product of the distances of all points but the
\* i-th, multiplied up from 1.0 in the order of the points
RECURSIVE other_distances_from(_, _, _, _)
other_distances_from(pts, i, j, acc) ==
    IF j > Len(pts) THEN acc
    ELSE other_distances_from(pts, i, j + 1,
             IF j = i THEN acc ELSE f64_mul(acc, f64_from(pts[j].d)))

\* a faulty product that does not leave out the i-th distance
other_distances_all(pts, i) == other_distances_from(pts, 0, 1, f64_from(1))

other_distances(pts, i) == other_distances_from(pts, i, 1, f64_from(1))

\* distance_denominator: the sum over the (n-1)-combinations of the
\* distances of their products; combinations() yields them in lexicographic
\* order, so the first leaves out the last point and the last the first
RECURSIVE distance_denominator_from(_, _, _)
distance_denominator_from(pts, omit, acc) ==
    IF omit = 0 THEN acc
    ELSE distance_denominator_from(pts, omit - 1,
             f64_add(acc, other_distances(pts, omit)))

distance_denominator(pts) == distance_denominator_from(pts, Len(pts), F64Zero)

\* the sum of p.0 * p.2 / distance_denominator over the points from the i-th
\* on, added to acc in the order of the points
RECURSIVE prediction_sum(_, _, _, _)
prediction_sum(pts, denominator, i, acc) ==
    IF i > Len(pts) THEN acc
    ELSE prediction_sum(pts, denominator, i + 1,
             f64_add(acc, f64_div(f64_mul(f64_from(pts[i].b),
                                          other_distances(pts, i)),
                                  denominator)))

\* interpolate: None without a point of this lux, else the f64 sum of the
\* weighted brightnesses cast to u64 (a zero denominator needs two points at
\* distance 0, then every term is 0/0 = NaN and the sum casts to 0)
interpolate(es, lx, lm) ==
    LET pts == points(es, lx, lm)
        denominator == distance_denominator(pts)
    IN IF Len(pts) = 0 THEN None
       ELSE IF denominator.m = <<>> THEN Some(0)
       ELSE Some(f64_to_u64(prediction_sum(pts, denominator, 1, F64Zero)))

(* ======================= predictor/controller/adaptive.rs ======================= *)

\* a faulty debouncer that lets a running cooldown go on under a new label
lux_debouncer_no_reset(new_als, nxt, cd, last) ==
    IF new_als # None /\ nxt # new_als
    THEN [next_als |-> new_als,
          next_als_cooldown |-> IF cd = 0 THEN NEXT_ALS_COOLDOWN_RESET ELSE cd,
          last_als |-> last]
    ELSE IF cd > 1
    THEN [next_als |-> nxt, next_als_cooldown |-> cd - 1, last_als |-> last]
    ELSE IF cd = 1
    THEN [next_als |-> None, next_als_cooldown |-> 0, last_als |-> nxt]
    ELSE [next_als |-> nxt, next_als_cooldown |-> cd, last_als |-> last]

\* a faulty debouncer that takes the candidate whenever no cooldown is left
lux_debouncer_take_idle(new_als, nxt, cd, last) ==
    IF new_als # None /\ nxt # new_als
    THEN [next_als |-> new_als, next_als_cooldown |-> NEXT_ALS_COOLDOWN_RESET,
          last_als |-> last]
    ELSE IF cd > 1
    THEN [next_als |-> nxt, next_als_cooldown |-> cd - 1, last_als |-> last]
    ELSE [next_als |-> None, next_als_cooldown |-> 0, last_als |-> nxt]

\* the lux debouncer of adjust(): next_als, next_als_cooldown and last_als
\* after a call whose drain of the ALS channel returned new_als
lux_debouncer(new_als, nxt, cd, last) ==
    IF new_als # None /\ nxt # new_als
    THEN [next_als |-> new_als, next_als_cooldown |-> NEXT_ALS_COOLDOWN_RESET,
          last_als |-> last]
    ELSE IF cd > 1
    THEN [next_als |-> nxt, next_als_cooldown |-> cd - 1, last_als |-> last]
    ELSE IF cd = 1
    THEN [next_als |-> None, next_als_cooldown |-> 0, last_als |-> nxt]
    ELSE [next_als |-> nxt, next_als_cooldown |-> cd, last_als |-> last]

\* a faulty Pending that keeps the brightness of the first edit of a burst
freeze_pending_first(pend, lx, lm, b) ==
    IF pend = None THEN Some(Entry(lx, lm, b)) ELSE pend

\* a faulty Pending that takes the lux and luma of every call with an edit
freeze_pending_latest(pend, lx, lm, b) == Some(Entry(lx, lm, b))

\* the Pending after process() saw the user edit b under (lx, lm)
freeze_pending(pend, lx, lm, b) ==
    IF pend = None THEN Some(Entry(lx, lm, b))
    ELSE Some(Entry(unwrap(pend).lux, unwrap(pend).luma, b))

\* faulty closures for learn()'s retain: one that only drops the entry of the
\* same luma, one with the comparisons the other way round, one that also
\* drops a darker entry of equal brightness, one that does not look at the lux
retain_other_luma(entry, pend) ==
    entry.lux # pend.lux \/ entry.luma # pend.luma

retain_inverted(entry, pend) ==
    \/ entry.lux # pend.lux
    \/ (entry.luma < pend.luma /\ entry.brightness < pend.brightness)
    \/ (entry.luma > pend.luma /\ entry.brightness > pend.brightness)

retain_strict(entry, pend) ==
    \/ entry.lux # pend.lux
    \/ (entry.luma < pend.luma /\ entry.brightness > pend.brightness)
    \/ (entry.luma > pend.luma /\ entry.brightness <= pend.brightness)

retain_any_lux(entry, pend) ==
    \/ (entry.luma < pend.luma /\ entry.brightness >= pend.brightness)
    \/ (entry.luma > pend.luma /\ entry.brightness <= pend.brightness)
    \/ (entry.lux # pend.lux /\ entry.luma # pend.luma)

\* the closure of learn()'s retain: whether entry stays
retain(entry, pend) ==
    \/ entry.lux # pend.lux
    \/ (entry.lux = pend.lux /\ entry.luma < pend.luma
        /\ entry.brightness >= pend.brightness)
    \/ (entry.lux = pend.lux /\ entry.luma > pend.luma
        /\ entry.brightness <= pend.brightness)

\* the comparator of learn()'s sort: lux, then luma
entry_less(x, y) ==
    \/ LuxRank[x.lux] < LuxRank[y.lux]
    \/ (x.lux = y.lux /\ x.luma < y.luma)

RECURSIVE sort_insert(_, _)
sort_insert(s, e) ==
    IF s = <<>> THEN <<e>>
    ELSE IF entry_less(e, Head(s)) THEN <<e>> \o s
    ELSE <<Head(s)>> \o sort_insert(Tail(s), e)

\* sort_unstable_by (lux, luma); the keys of a Dataset are distinct after the
\* retain, so the order is determined
RECURSIVE sort_unstable_by(_)
sort_unstable_by(s) ==
    IF s = <<>> THEN <<>>
    ELSE sort_insert(sort_unstable_by(Tail(s)), Head(s))

\* a faulty learn() that drops the Pending
learn_forget(es, pend) == es

\* Controller::learn: the Dataset after learning pend
learn(es, pend) ==
    sort_unstable_by(Append(SelectSeq(es, LAMBDA e: retain(e, pend)), pend))

(* ======================= predictor/data.rs ======================= *)

\* the name of the output whose tasks are modelled
OutputName == "eDP-1"

\* Data::path: format!("{:}.yaml", output_name) in the data directory, as the
\* pieces the file name is made of
path(name) == <<name, ".yaml">>

\* the data files a Data can name: the output's, and the one of an empty
\* output_name
FileNames == {path(OutputName), path("")}

Digits == <<"0", "1", "2", "3", "4", "5", "6", "7", "8", "9">>

\* a u64 as serde_yaml writes it: its decimal digits
RECURSIVE to_string(_)
to_string(n) ==
    IF n < 10 THEN <<Digits[n + 1]>>
    ELSE to_string(n \div 10) \o <<Digits[(n % 10) + 1]>>

is_digits(t) ==
    /\ t # <<>>
    /\ \A i \in 1..Len(t): \E d \in 1..10: Digits[d] = t[i]

\* the u64 read from decimal digits
RECURSIVE parse_u64(_)
parse_u64(t) ==
    LET last == CHOOSE d \in 0..9: Digits[d + 1] = t[Len(t)]
    IN IF Len(t) = 1 THEN last
       ELSE parse_u64(SubSeq(t, 1, Len(t) - 1)) * 10 + last

\* the three lines serde_yaml writes for an Entry: the key with its
\* indentation, and the scalar
RECURSIVE entry_lines(_)
entry_lines(es) ==
    IF es = <<>> THEN <<>>
    ELSE <<<<"- lux:", <<Head(es).lux>>>>,
           <<"  luma:", to_string(Head(es).luma)>>,
           <<"  brightness:", to_string(Head(es).brightness)>>>>
         \o entry_lines(Tail(es))

\* serde_yaml::to_writer of a Data: output_name is #[serde(skip)], the
\* entries are a block sequence, an empty Vec is written in flow style
to_writer(es) ==
    IF es = <<>> THEN <<<<"entries:", <<"[]">>>>>>
    ELSE <<<<"entries:", <<>>>>>> \o entry_lines(es)

\* whether lines i..i+2 of text are an Entry (luma is a u8)
entry_ok(text, i) ==
    /\ text[i][1] = "- lux:"
    /\ Len(text[i][2]) = 1 /\ text[i][2][1] \in DOMAIN LuxRank
    /\ text[i + 1][1] = "  luma:"
    /\ is_digits(text[i + 1][2]) /\ parse_u64(text[i + 1][2]) < 256
    /\ text[i + 2][1] = "  brightness:"
    /\ is_digits(text[i + 2][2])

entry_of(text, i) ==
    Entry(text[i][2][1], parse_u64(text[i + 1][2]), parse_u64(text[i + 2][2]))

\* serde_yaml::from_reader as a Data: Some(entries), or None for Err (an
\* empty file, a mapping without a sequence of whole entries)
from_reader(text) ==
    IF text = <<>> THEN None
    ELSE IF text = <<<<"entries:", <<"[]">>>>>> THEN Some(<<>>)
    ELSE IF \/ Head(text) # <<"entries:", <<>>>>
            \/ Len(text) = 1
            \/ (Len(text) - 1) % 3 # 0
         THEN None
    ELSE IF \A k \in 1..((Len(text) - 1) \div 3): entry_ok(text, 3 * k - 1)
         THEN Some([k \in 1..((Len(text) - 1) \div 3) |-> entry_of(text, 3 * k - 1)])
    ELSE None

\* Data::load: the entries of the output's file and the default of the
\* skipped output_name, or Data::new(name) when the file cannot be read as a
\* Data (read_file creates a missing file, empty)
load(fs, name) ==
    IF from_reader(fs[path(name)]) # None
    THEN [entries |-> unwrap(from_reader(fs[path(name)])), output_name |-> ""]
    ELSE [entries |-> <<>>, output_name |-> name]

\* Data::save that is Ok: write_file opens the file of self.output_name
\* with truncate, to_writer fills it
save(fs, name, es) == [fs EXCEPT ![path(name)] = to_writer(es)]

\* Data::save that is Err: the file could not be opened, or the write
\* failed after the truncation with some lines written
save_err(fs, name, es) ==
    {fs} \cup {[fs EXCEPT ![path(name)] = SubSeq(to_writer(es), 1, n)]:
                 n \in 0..(Len(to_writer(es)) - 1)}

(* ======================= predictor/controller/manual.rs ======================= *)

\* get_brightness_reduction: current_brightness * r / 100 truncated, r the
\* reduction interpolated from the configured table (0 for an unknown lux)
get_brightness_reduction(table, cb, lx, lm) ==
    IF interpolate(table, lx, lm) = None THEN 0
    ELSE f64_to_u64(f64_div(f64_mul(f64_from(cb),
                 f64_from(unwrap(interpolate(table, lx, lm)))), f64_from(100)))

\* process_brightness_change: the new pre_reduction_brightness
process_brightness_change(table, nb, lx, lm) ==
    nb + get_brightness_reduction(table, nb, lx, lm)

\* u64::saturating_sub
saturating_sub(a, b) == IF a < b THEN 0 ELSE a - b

\* a faulty predict() that takes the reduction of pre_reduction_brightness
manual_prediction_of_pre(table, pre, cb, lx, lm) ==
    saturating_sub(pre, get_brightness_reduction(table, pre, lx, lm))

\* a faulty predict() that sends pre_reduction_brightness as it is
manual_prediction_unreduced(table, pre, cb, lx, lm) == pre

\* the value predict() sends
manual_prediction(table, pre, cb, lx, lm) ==
    saturating_sub(pre, get_brightness_reduction(table, cb, lx, lm))

(* ======================= the state after construction ======================= *)

\* Controller::new of both tasks, the channels of main.rs, and the actuator at
\* brightness a with limits lo..hi; kind is the predictor variant, table the
\* manual predictor's configured thresholds
InitOutput(kind, table, a, lo, hi) ==
    /\ actuator = a /\ min_brightness = lo /\ max_brightness = hi
    /\ current = None /\ target = None
    /\ prediction_ch = <<>> /\ user_ch = <<>> /\ als_ch = <<>>
    /\ variant = kind /\ thresholds = table
    /\ pending_cooldown = 0 /\ pending = None /\ entries = <<>>
    /\ stateful = TRUE /\ output_name = OutputName
    /\ files = [f \in FileNames |-> <<>>]
    /\ initial_brightness = None
    /\ last_als = None /\ next_als = None /\ next_als_cooldown = 0
    /\ last_brightness = None /\ pre_reduction_brightness = None
    /\ pr_pc = "idle" /\ lux = None /\ luma = None
    /\ user_changed_brightness = None
    /\ bc_did = "new"
    /\ prediction_stale = <<>> /\ target_stale = FALSE
    /\ pr_did = "new" /\ edit_free = 0 /\ last_edit = None
    /\ run_label = None /\ run_len = 0 /\ lux_changed = FALSE
    /\ before = <<>> /\ learned = None

\* the ddcutil outputs of the configuration, in its order
DdcOutputs == 1..3

\* every output is initialised and main() is parked; no thread is in a
\* DDC call
ddc_parked ==
    /\ main_pc = <<"park">>
    /\ ddc_pc = [o \in DdcOutputs |-> "idle"]
    /\ DDC_MUTEX = None

\* Backlight::new: nothing is cached, no message is under way; direct says
\* whether the brightness file is writable
\* smol::channel::unbounded(): an empty queue, nobody receiving
receiver_new ==
    receiver = [ch |-> <<>>, pc |-> "idle", discard |-> 0, out |-> <<>>,
                sent |-> 0, newest |-> 0, last |-> 0, raced |-> FALSE]

\* Capturer::new and run() up to its loop: the output is bound, no frame is
\* requested; flag tells whether the loop has is_processing_frame
\* (wayland.rs) or not (wlr_export_dmabuf_unstable_v1.rs)
capturer_new(flag) ==
    capturer = [flag |-> flag, pc |-> "loop", is_processing_frame |-> FALSE,
                output |-> TRUE, frames |-> <<>>, requested |-> 0, ready |-> 0,
                cancelled |-> 0, adjusted |-> 0]

\* the outputs main() registered a channel for in als_txs
Outputs == 1..2

\* als::Controller::new with the channels main() collected in als_txs
als_controller_new ==
    als_controller = [pc |-> 0, value |-> "", value_txs |-> [o \in Outputs |-> <<>>],
                      polled |-> <<>>, received |-> [o \in Outputs |-> <<>>],
                      errors |-> 0, thresholds |-> <<>>, raw |-> 0]

\* Vulkan::new: no work image yet
vulkan_new ==
    vulkan = [image |-> FALSE, image_resolution |-> <<>>, frames |-> 0,
              frame |-> <<>>, luma |-> <<>>, panicked |-> FALSE]

\* the objects beside one output's closed loop, after construction
others_new ==
    receiver_new /\ capturer_new(TRUE) /\ als_controller_new /\ vulkan_new

backlight_new(direct) ==
    /\ has_write_permission = direct
    /\ cached = None
    /\ pending_dbus_write = FALSE
    /\ events = FALSE
    /\ dbus_ch = <<>>
    /\ external = FALSE

InitWith(kind, table, a, lo, hi) ==
    /\ InitOutput(kind, table, a, lo, hi)
    /\ ddc_parked
    /\ backlight_new(TRUE)
    /\ others_new

(* ======================= the environment ======================= *)

\* the user (or another program) sets the brightness to v behind the
\* controller's back.  One change at a time: the previous one has been seen by
\* the controller and the user-edit channel has room for this one.
UserSet(v) ==
    /\ v # actuator
    /\ current = Some(actuator)
    /\ Len(user_ch) < MaxQueue
    /\ actuator' = v
    /\ UNCHANGED <<min_brightness, max_brightness, bcVars, chVars, prVars,
                   bcHist, prHist, stateful, output_name, files, ddcVars,
                   blVars,
                   otherVars>>

\* als::Controller::step with als.get() = Ok(label): the label is sent (an
\* Err is logged and nothing is sent, which changes no state)
als_step(label) ==
    /\ Len(als_ch) < MaxQueue
    /\ als_ch' = Append(als_ch, label)
    /\ UNCHANGED <<actVars, bcVars, prediction_ch, user_ch, prVars, bcHist, prHist,
                   stateful, output_name, files, ddcVars, blVars,
                   otherVars>>

\* the first successful poll of the ALS; in the closed-loop specifications the
\* light does not change afterwards and no further label is delivered
als_first(label) ==
    /\ last_als = None
    /\ als_ch = <<>>
    /\ als_step(label)

(* ======================= brightness::Controller::step ======================= *)

\* a faulty comparison that takes a reading of 0 for "no reading"
user_changed_nonzero(nb, cur) == nb # 0 /\ Some(nb) # cur

\* step 1 of step(): whether the value read counts as a change by the user
\* (the cache is None before the first step)
user_changed(nb, cur) == Some(nb) # cur

\* step() when brightness.get() is Err: logged, then the 100 ms sleep
step_get_err ==
    /\ bc_did' = "other"
    /\ UNCHANGED <<actVars, bcVars, chVars, prVars, prediction_stale,
                   target_stale, prHist, stateful, output_name, files,
                   ddcVars, blVars,
                   otherVars>>

\* what step() does first when brightness.get() is Ok: the value read, and
\* the drain of the prediction channel
step_drain ==
    /\ prediction_ch' = <<>>
    /\ prediction_stale' = <<>>
    /\ UNCHANGED <<als_ch, prVars, prHist, min_brightness, max_brightness,
                   stateful, output_name, files, ddcVars, blVars,
                   otherVars>>

\* 1. the value read differs from the cache: update_current
step_update_current ==
    /\ step_drain
    /\ user_changed(actuator, current)
    /\ current' = Some(actuator)
    /\ user_ch' = Append(user_ch, actuator)
    /\ target' = None
    /\ target_stale' = FALSE
    /\ bc_did' = IF target # None /\ prediction_ch # <<>> THEN "user_edit_busy"
                 ELSE "other"
    /\ UNCHANGED actuator

\* the Target after step 2 of step(): update_target if a prediction was drained
step_target ==
    IF prediction_ch = <<>> THEN target
    ELSE update_target(target, unwrap(current), unwrap(recv_maybe_last(prediction_ch)))

\* whether the Target of step_target was made from a prediction emitted
\* before the predictor consumed the last user edit
step_target_stale ==
    IF step_target = target THEN target_stale
    ELSE prediction_stale[Len(prediction_stale)]

\* 3. transition() on a Target that is reached: the Target is cleared
step_transition_reached ==
    /\ step_drain
    /\ ~user_changed(actuator, current)
    /\ step_target # None
    /\ reached(unwrap(step_target), unwrap(current))
    /\ target' = None
    /\ target_stale' = FALSE
    /\ bc_did' = "other"
    /\ UNCHANGED <<actuator, current, user_ch>>

\* 3. transition() on a Target not reached, brightness.set() is Ok
step_transition_set ==
    /\ step_drain
    /\ ~user_changed(actuator, current)
    /\ step_target # None
    /\ ~reached(unwrap(step_target), unwrap(current))
    /\ target' = step_target
    /\ target_stale' = step_target_stale
    /\ actuator' = set(saturating_add_signed(unwrap(current), unwrap(step_target).step),
                       min_brightness, max_brightness)
    /\ current' = Some(actuator')
    /\ bc_did' = "set"
    /\ UNCHANGED user_ch

\* 3. transition() on a Target not reached, brightness.set() is Err: logged.
\* The write failed, or (Backlight) it was done and the inotify read after it
\* failed; the cache keeps its value either way
step_transition_set_err ==
    /\ step_drain
    /\ ~user_changed(actuator, current)
    /\ step_target # None
    /\ ~reached(unwrap(step_target), unwrap(current))
    /\ target' = step_target
    /\ target_stale' = step_target_stale
    /\ actuator' \in {actuator,
                      set(saturating_add_signed(unwrap(current), unwrap(step_target).step),
                          min_brightness, max_brightness)}
    /\ bc_did' = "other"
    /\ UNCHANGED <<current, user_ch>>

\* 4. nothing to do: sleep
step_sleep ==
    /\ step_drain
    /\ ~user_changed(actuator, current)
    /\ step_target = None
    /\ target' = None
    /\ target_stale' = FALSE
    /\ bc_did' = "other"
    /\ UNCHANGED <<actuator, current, user_ch>>

step ==
    \/ step_get_err
    \/ step_update_current
    \/ step_transition_reached
    \/ step_transition_set
    \/ step_transition_set_err
    \/ step_sleep

(* ======================= predictor: adjust ======================= *)

\* whether this adjust() is the first one (it then waits for the first lux)
first_adjust == last_als = None

\* the effective lux before the debouncer: on the first call the value recv()
\* takes from the head of the ALS channel
adjust_last_als == IF first_adjust THEN Some(Head(als_ch)) ELSE last_als

\* what recv_maybe_last() then drains from the ALS channel
adjust_new_als ==
    recv_maybe_last(IF first_adjust THEN Tail(als_ch) ELSE als_ch)

adjust_debounced ==
    lux_debouncer(adjust_new_als, next_als, next_als_cooldown, adjust_last_als)

\* the part of adjust() both variants share: the first lux, the debouncer,
\* and the lux handed to process()
adjust_lux(lm) ==
    /\ pr_pc = "idle"
    /\ Len(prediction_ch) < MaxQueue
    /\ first_adjust => als_ch # <<>>
    /\ als_ch' = <<>>
    /\ next_als' = adjust_debounced.next_als
    /\ next_als_cooldown' = adjust_debounced.next_als_cooldown
    /\ last_als' = adjust_debounced.last_als
    /\ lux' = Some(unwrap(adjust_debounced.last_als))
    /\ luma' = Some(lm)
    /\ pr_pc' = "act"
    /\ lux_changed' = (~first_adjust /\ last_als' # last_als)
    /\ run_label' = IF adjust_new_als # None /\ adjust_new_als # run_label
                       THEN adjust_new_als
                    ELSE IF first_adjust THEN adjust_last_als
                    ELSE run_label
    /\ run_len' = IF adjust_new_als # None /\ adjust_new_als # run_label THEN 0
                  ELSE IF first_adjust THEN 0
                  ELSE IF run_len > NEXT_ALS_COOLDOWN_RESET THEN run_len
                  ELSE run_len + 1
    /\ UNCHANGED <<actVars, bcVars, prediction_ch, variant, thresholds,
                   pending_cooldown, pending, entries, bcHist,
                   pr_did, edit_free, last_edit, before, learned,
                   stateful, output_name, files, ddcVars, blVars,
                   otherVars>>

\* a faulty handshake that keeps the first brightness whatever the Dataset
keep_initial_brightness_always(es, b) == Some(b)

\* the end of the handshake of the first adjust(): the first brightness is
\* kept as initial_brightness only if the Dataset is empty
keep_initial_brightness(es, b) == IF es = <<>> THEN Some(b) ELSE None

\* adaptive::Controller::adjust(lm) up to the branch of process(): on the
\* first call recv() of the first brightness, then the drain of the user-edit
\* channel, or-ed with the initial brightness
adjust(lm) ==
    /\ variant = "adaptive"
    /\ adjust_lux(lm)
    /\ first_adjust => user_ch # <<>>
    /\ user_ch' = <<>>
    /\ initial_brightness' = None
    /\ user_changed_brightness' =
          IF first_adjust
          THEN (IF Tail(user_ch) # <<>> THEN recv_maybe_last(Tail(user_ch))
                ELSE keep_initial_brightness(entries, Head(user_ch)))
          ELSE (IF user_ch # <<>> THEN recv_maybe_last(user_ch)
                ELSE initial_brightness)
    /\ UNCHANGED <<last_brightness, pre_reduction_brightness>>

(* ======================= adaptive::Controller::process ======================= *)

\* a user edit arrived: buffer it as Pending and reset the cooldown
process_user_changed ==
    /\ pr_pc = "act" /\ variant = "adaptive"
    /\ user_changed_brightness # None
    /\ pending' = freeze_pending(pending, unwrap(lux), unwrap(luma),
                                 unwrap(user_changed_brightness))
    /\ pending_cooldown' = PENDING_COOLDOWN_RESET
    /\ pr_pc' = "idle"
    /\ user_changed_brightness' = None
    /\ pr_did' = "edit"
    /\ edit_free' = 0
    /\ last_edit' = user_changed_brightness
    /\ before' = <<>>
    /\ learned' = None
    /\ lux' = None
    /\ luma' = None
    /\ UNCHANGED <<actVars, bcVars, chVars, variant, thresholds, entries,
                   initial_brightness, last_als, next_als, next_als_cooldown,
                   last_brightness, pre_reduction_brightness,
                   bcHist, run_label, run_len, lux_changed,
                   stateful, output_name, files, ddcVars, blVars,
                   otherVars>>

\* what every edit-free process() leaves alone, and its count
process_edit_free ==
    /\ pr_pc = "act"
    /\ user_changed_brightness = None
    /\ pr_pc' = "idle"
    /\ lux' = None
    /\ luma' = None
    /\ edit_free' = IF edit_free > PENDING_COOLDOWN_RESET + 1 THEN edit_free
                    ELSE edit_free + 1
    /\ UNCHANGED <<actVars, bcVars, user_ch, als_ch, variant, thresholds,
                   initial_brightness, last_als, next_als, next_als_cooldown,
                   user_changed_brightness,
                   bc_did, target_stale, last_edit, run_label, run_len,
                   lux_changed, stateful, output_name, ddcVars, blVars,
                   otherVars>>

\* a faulty countdown that learns at once when the cooldown reaches 0
process_cooldown_eager ==
    /\ variant = "adaptive"
    /\ process_edit_free
    /\ pending_cooldown > 0
    /\ pending_cooldown' = pending_cooldown - 1
    /\ pr_did' = "cooldown"
    /\ IF pending_cooldown = 1 /\ pending # None
       THEN /\ entries' = learn(entries, unwrap(pending))
            /\ files' = IF stateful THEN save(files, output_name, entries')
                         ELSE files
            /\ pending' = None
            /\ before' = entries
            /\ learned' = pending
       ELSE /\ before' = <<>>
            /\ learned' = None
            /\ UNCHANGED <<pending, entries, files>>
    /\ UNCHANGED <<prediction_ch, prediction_stale,
                   last_brightness, pre_reduction_brightness>>

\* no edit, cooldown running: count it down
process_cooldown ==
    /\ variant = "adaptive"
    /\ process_edit_free
    /\ pending_cooldown > 0
    /\ pending_cooldown' = pending_cooldown - 1
    /\ pr_did' = "cooldown"
    /\ before' = <<>>
    /\ learned' = None
    /\ UNCHANGED <<prediction_ch, prediction_stale, pending, entries,
                   last_brightness, pre_reduction_brightness, files>>

\* no edit, cooldown over, a Pending is there: learn()
process_learn ==
    /\ variant = "adaptive"
    /\ process_edit_free
    /\ pending_cooldown = 0
    /\ pending # None
    /\ entries' = learn(entries, unwrap(pending))
    /\ files' = IF stateful THEN save(files, output_name, entries') ELSE files
    /\ pending' = None
    /\ pr_did' = "learn"
    /\ before' = entries
    /\ learned' = pending
    /\ UNCHANGED <<prediction_ch, prediction_stale, pending_cooldown,
                   last_brightness, pre_reduction_brightness>>

\* no edit, cooldown over, no Pending: predict(), which sends when there is
\* a point of the current lux
process_predict ==
    /\ variant = "adaptive"
    /\ process_edit_free
    /\ pending_cooldown = 0
    /\ pending = None
    /\ IF interpolate(entries, unwrap(lux), unwrap(luma)) = None
       THEN /\ pr_did' = "no_data"
            /\ UNCHANGED <<prediction_ch, prediction_stale>>
       ELSE /\ pr_did' = "predict"
            /\ prediction_ch' = Append(prediction_ch,
                   unwrap(interpolate(entries, unwrap(lux), unwrap(luma))))
            /\ prediction_stale' = Append(prediction_stale, user_ch # <<>>)
    /\ before' = <<>>
    /\ learned' = None
    /\ UNCHANGED <<pending_cooldown, pending, entries,
                   last_brightness, pre_reduction_brightness, files>>

process ==
    \/ process_user_changed
    \/ process_cooldown
    \/ process_learn
    \/ process_predict

(* ======================= manual::Controller::adjust / process ======================= *)

\* the brightness process() works with: the value drained from the user-edit
\* channel, or else last_brightness
current_brightness ==
    IF user_changed_brightness # None THEN unwrap(user_changed_brightness)
    ELSE unwrap(last_brightness)

\* manual::Controller::adjust(lm) up to the branch of process(): the lux
\* debouncer, then the drain of the user-edit channel.  On the first call the
\* value drained is the initial brightness, which process_brightness_change
\* takes; the second drain then finds the channel empty.
manual_adjust(lm) ==
    /\ variant = "manual"
    /\ adjust_lux(lm)
    /\ last_brightness = None => user_ch # <<>>
    /\ user_ch' = <<>>
    /\ IF last_brightness = None
       THEN /\ last_brightness' = recv_maybe_last(user_ch)
            /\ pre_reduction_brightness' =
                  Some(process_brightness_change(thresholds,
                          unwrap(recv_maybe_last(user_ch)), unwrap(lux'), lm))
            /\ user_changed_brightness' = None
       ELSE /\ user_changed_brightness' = recv_maybe_last(user_ch)
            /\ UNCHANGED <<last_brightness, pre_reduction_brightness>>
    /\ UNCHANGED initial_brightness

\* the first process() finds no initial brightness on the user-edit channel:
\* panic, and the panic hook of main.rs ends the program
manual_panic ==
    /\ variant = "manual"
    /\ pr_pc = "idle"
    /\ last_brightness = None
    /\ als_ch # <<>>
    /\ user_ch = <<>>
    /\ pr_pc' = "panicked"
    /\ UNCHANGED <<actVars, bcVars, chVars, variant, pending_cooldown, pending,
                   entries, initial_brightness, last_als, next_als,
                   next_als_cooldown, last_brightness, pre_reduction_brightness,
                   thresholds, lux, luma, user_changed_brightness, bcHist, prHist,
                   stateful, output_name, files, ddcVars, blVars,
                   otherVars>>

\* what every branch of the manual process() leaves alone
manual_process_frame ==
    /\ variant = "manual"
    /\ pr_pc = "act"
    /\ pr_pc' = "idle"
    /\ lux' = None
    /\ luma' = None
    /\ user_changed_brightness' = None
    /\ before' = <<>>
    /\ learned' = None
    /\ UNCHANGED <<actVars, bcVars, user_ch, als_ch, variant, thresholds, pending,
                   entries, initial_brightness, last_als, next_als,
                   next_als_cooldown, bc_did, target_stale,
                   run_label, run_len, lux_changed,
                   stateful, output_name, files, ddcVars, blVars,
                   otherVars>>

\* the brightness differs from last_brightness: a change by the user
manual_process_changed ==
    /\ manual_process_frame
    /\ last_brightness # Some(current_brightness)
    /\ pre_reduction_brightness' =
          Some(process_brightness_change(thresholds, current_brightness,
                                         unwrap(lux), unwrap(luma)))
    /\ last_brightness' = Some(current_brightness)
    /\ pending_cooldown' = PENDING_COOLDOWN_RESET
    /\ pr_did' = "edit"
    /\ edit_free' = 0
    /\ last_edit' = Some(current_brightness)
    /\ UNCHANGED <<prediction_ch, prediction_stale>>

\* the same brightness, cooldown running: count it down
manual_process_cooldown ==
    /\ manual_process_frame
    /\ last_brightness = Some(current_brightness)
    /\ pending_cooldown > 0
    /\ pending_cooldown' = pending_cooldown - 1
    /\ pr_did' = "cooldown"
    /\ edit_free' = IF edit_free > PENDING_COOLDOWN_RESET + 1 THEN edit_free
                    ELSE edit_free + 1
    /\ UNCHANGED <<prediction_ch, prediction_stale, last_brightness,
                   pre_reduction_brightness, last_edit>>

\* the same brightness, no cooldown: predict(), which always sends
manual_process_predict ==
    /\ manual_process_frame
    /\ last_brightness = Some(current_brightness)
    /\ pending_cooldown = 0
    /\ prediction_ch' = Append(prediction_ch,
           manual_prediction(thresholds, unwrap(pre_reduction_brightness),
                             current_brightness, unwrap(lux), unwrap(luma)))
    /\ prediction_stale' = Append(prediction_stale, user_ch # <<>>)
    /\ pr_did' = "predict"
    /\ edit_free' = IF edit_free > PENDING_COOLDOWN_RESET + 1 THEN edit_free
                    ELSE edit_free + 1
    /\ UNCHANGED <<pending_cooldown, last_brightness, pre_reduction_brightness,
                   last_edit>>

manual_process ==
    \/ manual_process_changed
    \/ manual_process_cooldown
    \/ manual_process_predict

(* ======================= the closed loop of one output ======================= *)

Labels == {"bright", "dim"}

Init ==
    \E a \in 0..MaxBrightness:
        InitWith("adaptive", <<>>, a, MinBrightness, MaxBrightness)

Next ==
    \/ \E v \in 0..MaxBrightness: UserSet(v)
    \/ als_first("bright")
    \/ step
    \/ \E lm \in Lumas: adjust(lm)
    \/ process

Spec == Init /\ [][Next]_vars

(* ======================= the closed loop with the manual predictor ======================= *)

\* the [als.*.thresholds] reductions of the manual predictor's configuration:
\* no reduction on a black screen, 50 % on a white one
ManualThresholds ==
    <<Entry("bright", 0, 0), Entry("bright", 100, 50),
      Entry("dim", 0, 0), Entry("dim", 100, 50)>>

InitManual ==
    \E a \in 0..MaxBrightness:
        InitWith("manual", ManualThresholds, a, MinBrightness, MaxBrightness)

\* the panic hook ends the whole program: nothing steps after a panic
running == pr_pc # "panicked"

NextManual ==
    \/ running /\ \E v \in 0..MaxBrightness: UserSet(v)
    \/ running /\ als_first("bright")
    \/ running /\ step_get_err
    \/ running /\ step_update_current
    \/ running /\ step_transition_reached
    \/ running /\ step_transition_set
    \/ running /\ step_transition_set_err
    \/ running /\ step_sleep
    \/ \E lm \in Lumas: manual_adjust(lm)
    \/ manual_panic
    \/ manual_process

SpecManual == InitManual /\ [][NextManual]_vars

(* ======================= the predictor under a changing light ======================= *)

\* nobody but the controller touches the brightness; the ALS reports any label
\* at any poll.  The only prediction there can be is the startup brightness,
\* which the actuator keeps: no Target exists and transition() is not entered.
InitAls ==
    \E a \in 1..MaxBrightness:
        InitWith("adaptive", <<>>, a, MinBrightness, MaxBrightness)

NextAls ==
    \/ \E label \in Labels: als_step(label)
    \/ step_get_err
    \/ step_update_current
    \/ step_sleep
    \/ \E lm \in Lumas: adjust(lm)
    \/ process

SpecAls == InitAls /\ [][NextAls]_vars

(* ======================= scenario: learn and recall ======================= *)

\* startup brightness 100 on an actuator of 1..100, an empty Dataset
InitScenario == InitWith("adaptive", <<>>, 100, MinBrightness, 100)

\* the one edit of the scenario: the user sets 60 after the startup, once
ScenarioUserSet ==
    /\ actuator = 100
    /\ last_edit # Some(60)
    /\ user_changed_brightness # Some(60)
    /\ \A i \in DOMAIN user_ch: user_ch[i] # 60
    /\ UserSet(60)

\* lux "bright", luma 40 on every call; the actuator's reads and writes succeed
NextScenario ==
    \/ ScenarioUserSet
    \/ als_first("bright")
    \/ step_update_current
    \/ step_transition_reached
    \/ step_transition_set
    \/ step_sleep
    \/ adjust(40)
    \/ process

SpecScenario == InitScenario /\ [][NextScenario]_vars

(* ======================= learn() on its own ======================= *)

LearnLumas == {20, 30, 40}

LearnBrightnesses == {50, 60, 70, 80}

\* the predictor at the entry of the process() call that learns p: p is
\* buffered, the cooldown has run out and the call carries no edit (the state
\* test_learn_data_cleanup builds by hand before it calls learn())
set_pending(p) ==
    /\ pr_pc = "idle"
    /\ pending' = Some(p)
    /\ pending_cooldown' = 0
    /\ user_changed_brightness' = None
    /\ lux' = Some(p.lux)
    /\ luma' = Some(p.luma)
    /\ pr_pc' = "act"
    /\ before' = <<>>
    /\ learned' = None
    /\ pr_did' = "cooldown"
    /\ edit_free' = PENDING_COOLDOWN_RESET
    /\ last_edit' = Some(p.brightness)
    /\ UNCHANGED <<actVars, bcVars, chVars, variant, thresholds, entries,
                   initial_brightness, last_als, next_als, next_als_cooldown,
                   last_brightness, pre_reduction_brightness, bcHist,
                   run_label, run_len, lux_changed,
                   stateful, output_name, files, ddcVars, blVars,
                   otherVars>>

InitLearn == InitWith("adaptive", <<>>, MinBrightness, MinBrightness, MaxBrightness)

NextLearn ==
    \/ \E lx \in Labels, lm \in LearnLumas, b \in LearnBrightnesses:
          set_pending(Entry(lx, lm, b))
    \/ process_learn

SpecLearn == InitLearn /\ [][NextLearn]_vars

(* ---- the predictions of the adaptive predictor over Datasets as a data
   file and learn() leave them: the harness of the tests in adaptive.rs,
   which sets the state by hand and calls process() ---- *)

\* a Dataset of a backlight with a wide brightness range, six lumas learned
\* at one lux
LoadedBacklight ==
    <<Entry("dim", 2, 9657), Entry("dim", 48, 8447), Entry("dim", 52, 8386),
      Entry("dim", 53, 8134), Entry("dim", 73, 2941), Entry("dim", 75, 2074)>>

\* the Dataset of test_predict_approximate
LoadedApproximate ==
    <<Entry("bright", 10, 15), Entry("bright", 20, 30),
      Entry("bright", 100, 100)>>

PredictLoaded == {<<>>, LoadedBacklight, LoadedApproximate}

PredictPending ==
    {Entry("dim", 83, 1360), Entry("dim", 85, 1109),
     Entry("bright", 33, 4), Entry("bright", 50, 3), Entry("bright", 66, 1)}

PredictLumas == {2, 44, 50}

\* the predictor at the entry of a process() call that predicts at (lx, lm):
\* nothing is buffered, the cooldown is over, the call carries no edit, and
\* the harness has taken the previous prediction off the channel
set_predict(lx, lm) ==
    /\ pr_pc = "idle"
    /\ pending' = None
    /\ pending_cooldown' = 0
    /\ user_changed_brightness' = None
    /\ lux' = Some(lx)
    /\ luma' = Some(lm)
    /\ pr_pc' = "act"
    /\ prediction_ch' = <<>>
    /\ prediction_stale' = <<>>
    /\ before' = <<>>
    /\ learned' = None
    /\ pr_did' = "cooldown"
    /\ edit_free' = PENDING_COOLDOWN_RESET + 1
    /\ UNCHANGED <<actVars, bcVars, user_ch, als_ch, variant, thresholds,
                   entries, initial_brightness, last_als, next_als,
                   next_als_cooldown, last_brightness,
                   pre_reduction_brightness, bc_did, target_stale, last_edit,
                   run_label, run_len, lux_changed,
                   stateful, output_name, files, ddcVars, blVars,
                   otherVars>>

InitPredict ==
    /\ actuator = MinBrightness /\ min_brightness = MinBrightness
    /\ max_brightness = MaxBrightness
    /\ current = None /\ target = None
    /\ prediction_ch = <<>> /\ user_ch = <<>> /\ als_ch = <<>>
    /\ variant = "adaptive" /\ thresholds = <<>>
    /\ pending_cooldown = 0 /\ pending = None
    /\ entries \in PredictLoaded
    /\ stateful = FALSE /\ output_name = OutputName
    /\ ddc_parked
    /\ backlight_new(TRUE)
    /\ others_new
    /\ files = [f \in FileNames |-> <<>>]
    /\ initial_brightness = None
    /\ last_als = None /\ next_als = None /\ next_als_cooldown = 0
    /\ last_brightness = None /\ pre_reduction_brightness = None
    /\ pr_pc = "idle" /\ lux = None /\ luma = None
    /\ user_changed_brightness = None
    /\ bc_did = "new"
    /\ prediction_stale = <<>> /\ target_stale = FALSE
    /\ pr_did = "new" /\ edit_free = 0 /\ last_edit = None
    /\ run_label = None /\ run_len = 0 /\ lux_changed = FALSE
    /\ before = <<>> /\ learned = None

NextPredict ==
    \/ \E p \in PredictPending: set_pending(p)
    \/ process_learn
    \/ \E lx \in Labels, lm \in PredictLumas: set_predict(lx, lm)
    \/ process_predict

SpecPredict == InitPredict /\ [][NextPredict]_vars

(* ---- the transitions of the brightness controller on a backlight with a
   wide range: predictions arrive while the controller is at rest, nobody
   else touches the backlight, and its reads and writes succeed ---- *)

\* max_brightness of the backlight
TransitionMax == 10500

\* the brightness at startup
TransitionStart == 10000

\* the values the predictor sends
TransitionDesired == {0, 9473, 10413}

\* prediction_tx.send(v) by the predictor, while no transition is under way
prediction_send(v) ==
    /\ current # None
    /\ target = None
    /\ Len(prediction_ch) < MaxQueue
    /\ prediction_ch' = Append(prediction_ch, v)
    /\ prediction_stale' = Append(prediction_stale, FALSE)
    /\ UNCHANGED <<actVars, bcVars, user_ch, als_ch, prVars, bc_did,
                   target_stale, prHist, stateful, output_name, files,
                   ddcVars, blVars,
                   otherVars>>

\* min_brightness is 1 for a display and 0 for a keyboard
InitTransition ==
    \E lo \in {0, MinBrightness}:
        InitWith("adaptive", <<>>, TransitionStart, lo, TransitionMax)

NextTransition ==
    \/ \E v \in TransitionDesired: prediction_send(v)
    \/ step_update_current
    \/ step_transition_reached
    \/ step_transition_set
    \/ step_sleep

SpecTransition == InitTransition /\ [][NextTransition]_vars

(* ---- the startup of the adaptive predictor with an empty and with a
   loaded Dataset: the brightness controller runs before the first frame
   arrives, so the user may have edited the brightness by then (and does not
   afterwards); the reads and writes of the backlight succeed ---- *)

\* a Dataset loaded from the data file
LoadedFirst == <<Entry("bright", 0, MaxBrightness)>>

\* the user sets the brightness to v before the first frame arrives; the
\* user-edit channel may hold the startup brightness and MaxQueue edits
\* behind it
UserSetEarly(v) ==
    /\ first_adjust
    /\ v # actuator
    /\ current = Some(actuator)
    /\ Len(user_ch) <= MaxQueue
    /\ actuator' = v
    /\ UNCHANGED <<min_brightness, max_brightness, bcVars, chVars, prVars,
                   bcHist, prHist, stateful, output_name, files, ddcVars,
                   blVars,
                   otherVars>>

InitFirst ==
    \/ \E a \in 0..MaxBrightness:
          InitWith("adaptive", <<>>, a, MinBrightness, MaxBrightness)
    \/ /\ stateful = TRUE
       /\ ddc_parked
       /\ backlight_new(TRUE)
       /\ others_new
       /\ files = [f \in FileNames |->
                     IF f = path(OutputName) THEN to_writer(LoadedFirst)
                     ELSE <<>>]
       /\ entries = load(files, OutputName).entries
       /\ output_name = load(files, OutputName).output_name
       /\ actuator = MinBrightness /\ min_brightness = MinBrightness
       /\ max_brightness = MaxBrightness
       /\ current = None /\ target = None
       /\ prediction_ch = <<>> /\ user_ch = <<>> /\ als_ch = <<>>
       /\ variant = "adaptive" /\ thresholds = <<>>
       /\ pending_cooldown = 0 /\ pending = None
       /\ initial_brightness = None
       /\ last_als = None /\ next_als = None /\ next_als_cooldown = 0
       /\ last_brightness = None /\ pre_reduction_brightness = None
       /\ pr_pc = "idle" /\ lux = None /\ luma = None
       /\ user_changed_brightness = None
       /\ bc_did = "new"
       /\ prediction_stale = <<>> /\ target_stale = FALSE
       /\ pr_did = "new" /\ edit_free = 0 /\ last_edit = None
       /\ run_label = None /\ run_len = 0 /\ lux_changed = FALSE
       /\ before = <<>> /\ learned = None

NextFirst ==
    \/ \E v \in 0..MaxBrightness: UserSetEarly(v)
    \/ \E label \in Labels: als_first(label)
    \/ step_update_current
    \/ step_transition_reached
    \/ step_transition_set
    \/ step_sleep
    \/ \E lm \in Lumas: adjust(lm)
    \/ process

SpecFirst == InitFirst /\ [][NextFirst]_vars

(* ---- the manual predictor in the harness of the tests in manual.rs:
   setup() puts "dim" and the brightness 0 on the channels, the test sends
   brightness values, calls adjust()/process() and receives the
   predictions ---- *)

\* the thresholds of setup()
TestThresholds ==
    <<Entry("dim", 0, 0), Entry("dim", 50, 30), Entry("dim", 100, 60)>>

TestBrightnesses == {50, 100}

TestLumas == {50, 80}

\* the most values a test leaves on the user-edit channel: the 0 of setup()
\* and one of its own
TestQueue == 2

\* user_tx.send(v) of a test
user_tx_send(v) ==
    /\ pr_pc = "idle"
    /\ Len(user_ch) < TestQueue
    /\ user_ch' = Append(user_ch, v)
    /\ UNCHANGED <<actVars, bcVars, prediction_ch, als_ch, prVars, bcHist, prHist,
                   stateful, output_name, files, ddcVars, blVars,
                   otherVars>>

\* prediction_rx.recv() of a test
prediction_rx_recv ==
    /\ pr_pc = "idle"
    /\ prediction_ch # <<>>
    /\ prediction_ch' = <<>>
    /\ prediction_stale' = <<>>
    /\ UNCHANGED <<actVars, bcVars, user_ch, als_ch, prVars, bc_did,
                   target_stale, prHist, stateful, output_name, files, ddcVars,
                   blVars,
                   otherVars>>

\* setup() of the predictors' tests: Controller::new, one lux label and the
\* brightness 0 on the channels
InitTest(kind, table, label) ==
    /\ actuator = MinBrightness /\ min_brightness = MinBrightness
    /\ max_brightness = MaxBrightness
    /\ current = None /\ target = None
    /\ prediction_ch = <<>> /\ user_ch = <<0>> /\ als_ch = <<label>>
    /\ variant = kind /\ thresholds = table
    /\ pending_cooldown = 0 /\ pending = None /\ entries = <<>>
    /\ stateful = FALSE /\ output_name = OutputName
    /\ files = [f \in FileNames |-> <<>>]
    /\ ddc_parked
    /\ backlight_new(TRUE)
    /\ others_new
    /\ initial_brightness = None
    /\ last_als = None /\ next_als = None /\ next_als_cooldown = 0
    /\ last_brightness = None /\ pre_reduction_brightness = None
    /\ pr_pc = "idle" /\ lux = None /\ luma = None
    /\ user_changed_brightness = None
    /\ bc_did = "new"
    /\ prediction_stale = <<>> /\ target_stale = FALSE
    /\ pr_did = "new" /\ edit_free = 0 /\ last_edit = None
    /\ run_label = None /\ run_len = 0 /\ lux_changed = FALSE
    /\ before = <<>> /\ learned = None

InitManualTest == InitTest("manual", TestThresholds, "dim")

NextManualTest ==
    \/ \E v \in TestBrightnesses: user_tx_send(v)
    \/ prediction_rx_recv
    \/ prediction_ch = <<>> /\ \E lm \in TestLumas: manual_adjust(lm)
    \/ manual_process

SpecManualTest == InitManualTest /\ [][NextManualTest]_vars

\* the same harness under ALS_DIM or under a label the table does not have
ALS_UNKNOWN == "not-configured-threshold"

InitManualLux ==
    \E label \in {"dim", ALS_UNKNOWN}: InitTest("manual", TestThresholds, label)

SpecManualLux == InitManualLux /\ [][NextManualTest]_vars

(* ---- the adaptive predictor in the harness of the tests in adaptive.rs:
   the test sends brightness values and calls process(lux, luma) with any
   lux and luma ---- *)

ProcessLumas == {36, 66}

ProcessBrightnesses == {33, 36}

\* process(lx, lm) up to its branch: the drain of the user-edit channel,
\* or else the initial brightness
process_drain(lx, lm) ==
    /\ pr_pc = "idle" /\ variant = "adaptive"
    /\ prediction_ch = <<>>
    /\ lux' = Some(lx)
    /\ luma' = Some(lm)
    /\ pr_pc' = "act"
    /\ user_changed_brightness' =
          IF user_ch # <<>> THEN recv_maybe_last(user_ch) ELSE initial_brightness
    /\ user_ch' = <<>>
    /\ initial_brightness' = None
    /\ UNCHANGED <<actVars, bcVars, prediction_ch, als_ch, variant, thresholds,
                   pending_cooldown, pending, entries, last_als, next_als,
                   next_als_cooldown, last_brightness, pre_reduction_brightness,
                   bcHist, prHist, stateful, output_name, files, ddcVars,
                   blVars,
                   otherVars>>

InitProcess == InitTest("adaptive", <<>>, "bright")

NextProcess ==
    \/ \E v \in ProcessBrightnesses: user_tx_send(v)
    \/ prediction_rx_recv
    \/ \E lx \in Labels, lm \in ProcessLumas: process_drain(lx, lm)
    \/ process

SpecProcess == InitProcess /\ [][NextProcess]_vars

(* ---- update_target in the harness of the tests in brightness/controller.rs:
   the test sets controller.current and calls update_target(desired) ---- *)

\* the brightness values of the test cases
TargetCurrents == {0, 7, 10000}

TargetDesired ==
    {0, 1, 7, 10, 8433, 9473, 9800, 9801, 9999, 10000, 10001, 10199, 10200,
     10413, 11732}

\* controller.current = Some(c)
test_set_current(c) ==
    /\ current' = Some(c)
    /\ bc_did' = "new"
    /\ UNCHANGED <<actVars, target, chVars, prVars, prediction_stale,
                   target_stale, prHist, stateful, output_name, files, ddcVars,
                   blVars,
                   otherVars>>

\* controller.update_target(d); the history records whether the call set
\* the Target
test_update_target(d) ==
    /\ current # None
    /\ target' = update_target(target, unwrap(current), d)
    /\ bc_did' = IF target # None /\ unwrap(target).desired = d THEN "kept_desired"
                 ELSE IF Some(d) = current THEN "kept_current"
                 ELSE "target_set"
    /\ UNCHANGED <<actVars, current, chVars, prVars, prediction_stale,
                   target_stale, prHist, stateful, output_name, files, ddcVars,
                   blVars,
                   otherVars>>

InitTarget ==
    InitWith("adaptive", <<>>, MinBrightness, MinBrightness, MaxBrightness)

NextTarget ==
    \/ \E c \in TargetCurrents: test_set_current(c)
    \/ \E d \in TargetDesired: test_update_target(d)

SpecTarget == InitTarget /\ [][NextTarget]_vars

(* ---- the brightness controller over a Backlight: get() answers from the
   cache unless the inotify queue holds an event, set() writes the file or
   sends SetBrightness to logind, which writes the file later; the user
   writes the file at any time.  Reads and writes succeed. ---- *)

\* the most SetBrightness messages logind has not yet carried out
MaxInFlight == 2

\* whether Backlight::get reads the file: nothing is cached, or there is an
\* event and no write went out over dbus since the last get()
get_reads == cached = None \/ (events /\ ~pending_dbus_write)

\* the value Backlight::get returns
get_value == IF get_reads THEN actuator ELSE unwrap(cached)

\* step() up to its branch: get(), which empties the inotify queue, and the
\* drain of the prediction channel
bl_get ==
    /\ prediction_ch' = <<>>
    /\ prediction_stale' = <<>>
    /\ UNCHANGED <<min_brightness, max_brightness, als_ch, prVars, dataVars,
                   ddcVars, otherVars, prHist, has_write_permission,
                   target_stale>>

\* what get() leaves of the Backlight when no set() follows in the step
bl_get_only ==
    /\ cached' = Some(get_value)
    /\ pending_dbus_write' = IF cached = None THEN pending_dbus_write ELSE FALSE
    /\ events' = FALSE
    /\ UNCHANGED <<actuator, dbus_ch>>

\* the value transition() hands to set(), clamped
bl_new_value ==
    set(saturating_add_signed(unwrap(current), unwrap(step_target).step),
        min_brightness, max_brightness)

\* 1. the value read differs from current: update_current
bl_step_update_current ==
    /\ bl_get /\ bl_get_only
    /\ Len(user_ch) <= MaxQueue
    /\ Some(get_value) # current
    /\ current' = Some(get_value)
    /\ user_ch' = Append(user_ch, get_value)
    /\ target' = None
    /\ bc_did' = IF current = None THEN "first" ELSE "user_edit"
    /\ external' = FALSE

\* 3. transition() on a Target that is reached
bl_step_transition_reached ==
    /\ bl_get /\ bl_get_only
    /\ Some(get_value) = current
    /\ step_target # None
    /\ reached(unwrap(step_target), unwrap(current))
    /\ target' = None
    /\ bc_did' = "other"
    /\ UNCHANGED <<current, user_ch, external>>

\* 3. transition() on a Target not reached, the file is writable: set()
\* writes it, caches the value and consumes the events
bl_step_transition_set ==
    /\ bl_get
    /\ has_write_permission
    /\ Some(get_value) = current
    /\ step_target # None
    /\ ~reached(unwrap(step_target), unwrap(current))
    /\ target' = step_target
    /\ actuator' = bl_new_value
    /\ cached' = Some(bl_new_value)
    /\ current' = Some(bl_new_value)
    /\ events' = FALSE
    /\ pending_dbus_write' = FALSE
    /\ bc_did' = "set"
    /\ UNCHANGED <<user_ch, dbus_ch, external>>

\* the same, and the user writes u between set()'s write and its read of
\* the inotify queue
bl_step_transition_set_raced(u) ==
    /\ bl_get
    /\ has_write_permission
    /\ Some(get_value) = current
    /\ step_target # None
    /\ ~reached(unwrap(step_target), unwrap(current))
    /\ u # bl_new_value
    /\ target' = step_target
    /\ actuator' = u
    /\ cached' = Some(bl_new_value)
    /\ current' = Some(bl_new_value)
    /\ events' = FALSE
    /\ pending_dbus_write' = FALSE
    /\ external' = TRUE
    /\ bc_did' = "set"
    /\ UNCHANGED <<user_ch, dbus_ch>>

\* 3. transition() on a Target not reached, no write permission: set()
\* sends the message, sets pending_dbus_write, caches the value and
\* consumes the events
bl_step_transition_set_dbus ==
    /\ bl_get
    /\ ~has_write_permission
    /\ Len(dbus_ch) < MaxInFlight
    /\ Some(get_value) = current
    /\ step_target # None
    /\ ~reached(unwrap(step_target), unwrap(current))
    /\ target' = step_target
    /\ dbus_ch' = Append(dbus_ch, bl_new_value)
    /\ pending_dbus_write' = TRUE
    /\ cached' = Some(bl_new_value)
    /\ current' = Some(bl_new_value)
    /\ events' = FALSE
    /\ bc_did' = "set"
    /\ UNCHANGED <<actuator, user_ch, external>>

\* 4. nothing to do: sleep
bl_step_sleep ==
    /\ bl_get /\ bl_get_only
    /\ Some(get_value) = current
    /\ step_target = None
    /\ target' = None
    /\ bc_did' = "other"
    /\ UNCHANGED <<current, user_ch, external>>

\* what the environment of the controller leaves alone
bl_env ==
    UNCHANGED <<min_brightness, max_brightness, bcVars, als_ch, prVars, dataVars,
                ddcVars, otherVars, bc_did, target_stale, prHist,
                has_write_permission, cached, pending_dbus_write>>

\* logind carries out the oldest SetBrightness message
logind_write ==
    /\ dbus_ch # <<>>
    /\ actuator' = Head(dbus_ch)
    /\ dbus_ch' = Tail(dbus_ch)
    /\ events' = TRUE
    /\ bl_env
    /\ UNCHANGED <<prediction_ch, prediction_stale, user_ch, external>>

\* the user (or another program) writes u to the brightness file
bl_user_write(u) ==
    /\ u # actuator
    /\ actuator' = u
    /\ events' = TRUE
    /\ external' = TRUE
    /\ bl_env
    /\ UNCHANGED <<prediction_ch, prediction_stale, user_ch, dbus_ch>>

\* the predictor takes the values off the user-edit channel
user_rx_recv ==
    /\ user_ch # <<>>
    /\ user_ch' = <<>>
    /\ bl_env
    /\ UNCHANGED <<actuator, prediction_ch, prediction_stale, events, dbus_ch,
                   external>>

\* the predictor sends v while no transition is under way
bl_prediction_send(v) ==
    /\ current # None
    /\ target = None
    /\ Len(prediction_ch) < MaxQueue
    /\ prediction_ch' = Append(prediction_ch, v)
    /\ prediction_stale' = Append(prediction_stale, FALSE)
    /\ bl_env
    /\ UNCHANGED <<actuator, user_ch, events, dbus_ch, external>>

InitBacklight ==
    \E direct \in BOOLEAN:
        /\ InitOutput("adaptive", <<>>, MinBrightness, 0, MaxBrightness)
        /\ ddc_parked
        /\ backlight_new(direct)
        /\ others_new

NextBacklight ==
    \/ bl_step_update_current
    \/ bl_step_transition_reached
    \/ bl_step_transition_set
    \/ \E u \in 0..MaxBrightness: bl_step_transition_set_raced(u)
    \/ bl_step_transition_set_dbus
    \/ bl_step_sleep
    \/ logind_write
    \/ \E u \in 0..MaxBrightness: bl_user_write(u)
    \/ user_rx_recv
    \/ \E v \in 0..MaxBrightness: bl_prediction_send(v)

SpecBacklight == InitBacklight /\ [][NextBacklight]_vars

(* ---- the data file over the runs of the program: learn() saves, and the
   next run loads what the output's file holds ---- *)

DataPending ==
    {Entry("dim", lm, b): lm \in {20, 30, 40}, b \in {50, 60, 70}}
        \cup {Entry("bright", 20, 50)}

\* the program is started again: adaptive::Controller::new with stateful
\* loads the Data of the output, nothing is buffered
new_controller ==
    /\ pr_pc = "idle"
    /\ stateful
    /\ entries' = load(files, OutputName).entries
    /\ output_name' = load(files, OutputName).output_name
    /\ pending' = None
    /\ pending_cooldown' = 0
    /\ pr_did' = "new"
    /\ edit_free' = 0
    /\ last_edit' = None
    /\ before' = <<>>
    /\ learned' = None
    /\ UNCHANGED <<actVars, bcVars, chVars, variant, thresholds,
                   initial_brightness, last_als, next_als, next_als_cooldown,
                   last_brightness, pre_reduction_brightness, pr_pc, lux, luma,
                   user_changed_brightness, bcHist, run_label, run_len,
                   lux_changed, stateful, files, ddcVars, blVars,
                   otherVars>>

NextData ==
    \/ \E p \in DataPending: set_pending(p)
    \/ process_learn
    \/ new_controller

SpecData == InitLearn /\ [][NextData]_vars

(* ---- the DDC/CI bus: main() initialises the ddcutil outputs one after
   the other and starts the backlight thread of each before it goes on to
   the next; a backlight thread calls get() and set() from step() ---- *)

outputVars == <<actVars, bcVars, chVars, prVars, dataVars, bcHist, prHist>>

\* DdcUtil::new(o) found the display and calls get_max_brightness, which
\* reads the VCP feature without taking DDC_MUTEX
main_get_max_brightness(o) ==
    /\ main_pc = <<"new", o>>
    /\ main_pc' = <<"get_max_brightness", o>>
    /\ UNCHANGED <<ddc_pc, DDC_MUTEX, outputVars, blVars,
                   otherVars>>

\* get_max_brightness returned: main() spawns the backlight thread of o and
\* takes the next output, or parks after the last
main_spawn(o) ==
    /\ main_pc = <<"get_max_brightness", o>>
    /\ ddc_pc' = [ddc_pc EXCEPT ![o] = "idle"]
    /\ main_pc' = IF o + 1 \in DdcOutputs THEN <<"new", o + 1>> ELSE <<"park">>
    /\ UNCHANGED <<DDC_MUTEX, outputVars, blVars,
                   otherVars>>

\* the backlight thread of o calls get() or set(): it waits for DDC_MUTEX
ddc_call(o, op) ==
    /\ ddc_pc[o] = "idle"
    /\ ddc_pc' = [ddc_pc EXCEPT ![o] = IF op = "get" THEN "get_lock" ELSE "set_lock"]
    /\ UNCHANGED <<main_pc, DDC_MUTEX, outputVars, blVars,
                   otherVars>>

\* DDC_MUTEX.lock() returns: the VCP read or write of o starts
ddc_lock(o) ==
    /\ ddc_pc[o] \in {"get_lock", "set_lock"}
    /\ DDC_MUTEX = None
    /\ DDC_MUTEX' = Some(o)
    /\ ddc_pc' = [ddc_pc EXCEPT ![o] = IF ddc_pc[o] = "get_lock" THEN "get_vcp"
                                       ELSE "set_vcp"]
    /\ UNCHANGED <<main_pc, outputVars, blVars,
                   otherVars>>

\* get() or set() returns, _lock is dropped
ddc_return(o) ==
    /\ ddc_pc[o] \in {"get_vcp", "set_vcp"}
    /\ DDC_MUTEX' = None
    /\ ddc_pc' = [ddc_pc EXCEPT ![o] = "idle"]
    /\ UNCHANGED <<main_pc, outputVars, blVars,
                   otherVars>>

InitDdc ==
    /\ InitOutput("adaptive", <<>>, MinBrightness, MinBrightness, MaxBrightness)
    /\ main_pc = <<"new", 1>>
    /\ ddc_pc = [o \in DdcOutputs |-> "unspawned"]
    /\ DDC_MUTEX = None
    /\ backlight_new(TRUE)
    /\ others_new

NextDdc ==
    \/ \E o \in DdcOutputs: main_get_max_brightness(o)
    \/ \E o \in DdcOutputs: main_spawn(o)
    \/ \E o \in DdcOutputs, op \in {"get", "set"}: ddc_call(o, op)
    \/ \E o \in DdcOutputs: ddc_lock(o)
    \/ \E o \in DdcOutputs: ddc_return(o)

SpecDdc == InitDdc /\ [][NextDdc]_vars

(* ---- fatal errors in the tasks of an output.  expect() and panic!() run
   the panic hook that main() installs, which prints the message and calls
   std::process::exit(1): pr_pc = "panicked" is the program after that exit,
   when none of its threads runs any more (`running`).  The backlight's reads
   and writes succeed and nobody edits the brightness. ---- *)

\* what a panic in the capturer's thread leaves of the program: nothing runs
\* on, the state is as the panic found it
panic_exit(cause) ==
    /\ pr_pc' = "panicked"
    /\ pr_did' = cause
    /\ UNCHANGED <<actVars, bcVars, chVars, variant, pending_cooldown,
                   initial_brightness, last_als, next_als, next_als_cooldown,
                   last_brightness, pre_reduction_brightness, thresholds,
                   lux, luma, user_changed_brightness, bcHist,
                   edit_free, last_edit, run_label, run_len, lux_changed,
                   before, learned, stateful, output_name, ddcVars, blVars,
                   otherVars>>

\* the capturer receives Cancel with reason Permanent for the frame it
\* waits for: panic!("Frame was cancelled due to a permanent error...")
capture_cancel_permanent ==
    /\ pr_pc = "idle"
    /\ panic_exit("cancelled")
    /\ UNCHANGED <<pending, entries, files>>

\* the capturer receives Ready and luma_percent() is Err (the GPU submit or
\* the wait for its fence failed): expect("Unable to compute luma percent")
luma_percent_err ==
    /\ pr_pc = "idle"
    /\ panic_exit("luma_failed")
    /\ UNCHANGED <<pending, entries, files>>

\* learn() whose data.save() is Err: the Pending is taken and the entries
\* are retained, pushed and sorted before expect("Unable to save data")
learn_save_err ==
    /\ pr_pc = "act" /\ variant = "adaptive"
    /\ user_changed_brightness = None
    /\ pending_cooldown = 0
    /\ pending # None
    /\ stateful
    /\ entries' = learn(entries, unwrap(pending))
    /\ files' \in save_err(files, output_name, entries')
    /\ pending' = None
    /\ panic_exit("save_failed")

NextFaults ==
    \/ running /\ als_first("bright")
    \/ running /\ step_update_current
    \/ running /\ step_sleep
    \/ running /\ \E lm \in Lumas: adjust(lm)
    \/ running /\ process
    \/ running /\ capture_cancel_permanent
    \/ running /\ luma_percent_err
    \/ running /\ learn_save_err

SpecFaults == Init /\ [][NextFaults]_vars

(* ======================= claims ======================= *)

\* C1: a step of the brightness controller whose read differs from the cached
\* current (the first step and a reading of 0 included) sets the cache to the
\* value read, sends exactly that value on the user-edit channel, clears the
\* Target and writes nothing to the actuator, whatever is queued or in progress
C1_UserEditOverrides ==
    [][(step /\ ~step_get_err /\ Some(actuator) # current)
        => /\ current' = Some(actuator)
           /\ user_ch' = Append(user_ch, actuator)
           /\ target' = None
           /\ actuator' = actuator]_vars

\* C1 witness: the controller has just handled a user edit that arrived
\* while a Target was active and a prediction was queued
C1_Witness ==
    /\ bc_did = "user_edit_busy"
    /\ target = None
    /\ user_ch # <<>>
    /\ current = Some(user_ch[Len(user_ch)])

\* C2: the controller never holds a Target made from a prediction that the
\* predictor emitted before it consumed the last user edit the controller detected
C2_NoStalePredictionWins == target_stale = FALSE

\* C3: every value a controller step writes lies in [min_brightness,
\* max_brightness]; the value a successful set() writes is the requested value
\* clamped to that range and is the controller's cached current afterwards
C3_WritesClamped ==
    [][/\ (step /\ actuator' # actuator)
            => (min_brightness <= actuator' /\ actuator' <= max_brightness)
       /\ step_transition_set
            => /\ min_brightness <= actuator' /\ actuator' <= max_brightness
               /\ current' = Some(actuator')
               /\ (actuator' # unwrap(current) + unwrap(target').step
                   => actuator' \in {min_brightness, max_brightness})]_vars

\* C3 witness: the controller has just written min_brightness on its way to a
\* desired value below min_brightness
C3_Witness ==
    /\ bc_did = "set"
    /\ target # None
    /\ unwrap(target).desired < min_brightness
    /\ actuator = min_brightness
    /\ current = Some(actuator)

\* C4 (as stated): in the scenario the Dataset is [("bright",40,60)] once 15
\* edit-free adjust() calls have followed the edit to 60
C4_LearnedAfterCooldownReset ==
    (last_edit = Some(60) /\ edit_free = PENDING_COOLDOWN_RESET /\ pr_pc = "idle")
        => entries = <<Entry("bright", 40, 60)>>

\* C4 (amended): in the scenario the Dataset is exactly [("bright",40,60)]
\* once 16 edit-free adjust() calls have followed the edit to 60, and every
\* later edit-free adjust() emits the prediction 60
C4_LearnAndRecall ==
    [][/\ (last_edit' = Some(60) /\ edit_free' > PENDING_COOLDOWN_RESET)
            => entries' = <<Entry("bright", 40, 60)>>
       /\ (/\ process
           /\ user_changed_brightness = None
           /\ last_edit = Some(60)
           /\ edit_free > PENDING_COOLDOWN_RESET)
            => (pr_did' = "predict" /\ prediction_ch' = Append(prediction_ch, 60))]_vars

\* C4 witness: the 17th edit-free call after the edit to 60 has just emitted 60
C4_Witness ==
    /\ last_edit = Some(60)
    /\ edit_free = PENDING_COOLDOWN_RESET + 2
    /\ pr_did = "predict"
    /\ prediction_ch = <<60>>
    /\ entries = <<Entry("bright", 40, 60)>>

\* C5: the Dataset holds at most one Entry per (lux, luma); within a lux a
\* smaller luma never has a smaller brightness; and right after learning p
\* the entries of p's lux are >= p's brightness below p's luma and <= above
C5_DatasetMonotone ==
    /\ \A i, j \in DOMAIN entries:
          (i # j /\ entries[i].lux = entries[j].lux)
              => entries[i].luma # entries[j].luma
    /\ \A i, j \in DOMAIN entries:
          (entries[i].lux = entries[j].lux /\ entries[i].luma < entries[j].luma)
              => entries[i].brightness >= entries[j].brightness
    /\ learned # None =>
          \A i \in DOMAIN entries:
              entries[i].lux = unwrap(learned).lux =>
                  /\ entries[i].luma < unwrap(learned).luma
                        => entries[i].brightness >= unwrap(learned).brightness
                  /\ entries[i].luma > unwrap(learned).luma
                        => entries[i].brightness <= unwrap(learned).brightness

\* C5 witness: a learn has just left three entries of one lux with three
\* different brightnesses
C5_Witness ==
    /\ learned # None
    /\ Len(entries) = 3
    /\ entries[1].lux = entries[3].lux
    /\ entries[1].brightness > entries[2].brightness
    /\ entries[2].brightness > entries[3].brightness

\* C6 (as stated): learn deletes the entries of the Pending's lux that are
\* darker with brightness >= the Pending's or brighter with brightness <= it;
\* ("dim",30,50) into [("dim",20,80),("dim",30,70),("dim",40,60)] leaves
\* [("dim",30,50),("dim",40,60)]
C6_DeletesDarkerGeBrighterLe ==
    learned # None =>
        /\ \A i \in DOMAIN before:
              (/\ before[i].lux = unwrap(learned).lux
               /\ \/ (before[i].luma < unwrap(learned).luma
                      /\ before[i].brightness >= unwrap(learned).brightness)
                  \/ (before[i].luma > unwrap(learned).luma
                      /\ before[i].brightness <= unwrap(learned).brightness))
                  => \A j \in DOMAIN entries: entries[j] # before[i]
        /\ (/\ before = <<Entry("dim", 20, 80), Entry("dim", 30, 70), Entry("dim", 40, 60)>>
            /\ learned = Some(Entry("dim", 30, 50)))
              => entries = <<Entry("dim", 30, 50), Entry("dim", 40, 60)>>

\* C6 (amended): learn deletes the entries of the Pending's lux that are
\* darker with brightness < the Pending's or brighter with brightness > it,
\* and keeps those that are darker with brightness >= or brighter with
\* brightness <=; ("dim",30,50) into [("dim",20,80),("dim",30,70),("dim",40,60)]
\* leaves [("dim",20,80),("dim",30,50)]
C6_DeletesDarkerLtBrighterGt ==
    learned # None =>
        /\ \A i \in DOMAIN before:
              (/\ before[i].lux = unwrap(learned).lux
               /\ \/ (before[i].luma < unwrap(learned).luma
                      /\ before[i].brightness < unwrap(learned).brightness)
                  \/ (before[i].luma > unwrap(learned).luma
                      /\ before[i].brightness > unwrap(learned).brightness))
                  => \A j \in DOMAIN entries: entries[j] # before[i]
        /\ \A i \in DOMAIN before:
              (/\ before[i].lux = unwrap(learned).lux
               /\ \/ (before[i].luma < unwrap(learned).luma
                      /\ before[i].brightness >= unwrap(learned).brightness)
                  \/ (before[i].luma > unwrap(learned).luma
                      /\ before[i].brightness <= unwrap(learned).brightness))
                  => \E j \in DOMAIN entries: entries[j] = before[i]
        /\ (/\ before = <<Entry("dim", 20, 80), Entry("dim", 30, 70), Entry("dim", 40, 60)>>
            /\ learned = Some(Entry("dim", 30, 50)))
              => entries = <<Entry("dim", 20, 80), Entry("dim", 30, 50)>>

\* C6 witness: the example has just been learned
C6_Witness ==
    /\ before = <<Entry("dim", 20, 80), Entry("dim", 30, 70), Entry("dim", 40, 60)>>
    /\ learned = Some(Entry("dim", 30, 50))
    /\ entries = <<Entry("dim", 20, 80), Entry("dim", 30, 50)>>

\* C7: learn with Pending p removes exactly the entries of p's lux that have
\* p's luma, or a smaller luma and a smaller brightness, or a larger luma and
\* a larger brightness; it keeps every other entry once and holds p once
C7_LearnRemovesExactly ==
    learned # None =>
        \A lx \in Labels, lm \in LearnLumas, b \in LearnBrightnesses:
            Cardinality({j \in DOMAIN entries: entries[j] = Entry(lx, lm, b)})
            = IF Entry(lx, lm, b) = unwrap(learned) THEN 1
              ELSE IF /\ lx = unwrap(learned).lux
                      /\ \/ lm = unwrap(learned).luma
                         \/ (lm < unwrap(learned).luma /\ b < unwrap(learned).brightness)
                         \/ (lm > unwrap(learned).luma /\ b > unwrap(learned).brightness)
                   THEN 0
              ELSE Cardinality({i \in DOMAIN before: before[i] = Entry(lx, lm, b)})

\* C7 witness: a learn has just removed two of three entries of its lux, one
\* of them of the Pending's luma, and kept the third
C7_Witness ==
    /\ learned # None
    /\ Len(before) = 3
    /\ Len(entries) = 2
    /\ before[1].lux = unwrap(learned).lux
    /\ before[3].lux = unwrap(learned).lux
    /\ \E i \in DOMAIN before: before[i].luma = unwrap(learned).luma

\* C8: the entries of every lux other than the Pending's are the same, each
\* as often, before and after a learn
C8_OtherLuxUntouched ==
    learned # None =>
        \A lx \in Labels \ {unwrap(learned).lux}:
            \A lm \in LearnLumas, b \in LearnBrightnesses:
                Cardinality({j \in DOMAIN entries: entries[j] = Entry(lx, lm, b)})
                = Cardinality({i \in DOMAIN before: before[i] = Entry(lx, lm, b)})

\* C8 witness: a learn has just removed an entry of its lux from a Dataset
\* that holds an entry of the same luma under the other lux
C8_Witness ==
    /\ learned # None
    /\ Len(entries) <= Len(before)
    /\ \E i \in DOMAIN before:
          /\ before[i].lux # unwrap(learned).lux
          /\ before[i].luma = unwrap(learned).luma
          /\ \E j \in DOMAIN entries: entries[j] = before[i]

\* C9: the effective lux changes only on an adjust() call that is the
\* NEXT_ALS_COOLDOWN_RESET-th after the call that first received the new
\* label, with no other label received on a call in between
C9_LuxDebounced ==
    [][(last_als # None /\ last_als' # last_als)
        => /\ last_als' = run_label'
           /\ run_len' = NEXT_ALS_COOLDOWN_RESET]_vars

\* C9 witness: the effective lux has just changed from "bright" to "dim"
C9_Witness ==
    /\ lux_changed
    /\ last_als = Some("dim")
    /\ run_label = Some("dim")
    /\ run_len = NEXT_ALS_COOLDOWN_RESET

\* C10: a call of the predictor that drained a user edit, that found
\* pending_cooldown > 0, or that learned, leaves the prediction channel as it is
C10_PredictorYields ==
    [][(/\ pr_pc = "act"
        /\ pr_pc' = "idle"
        /\ \/ user_changed_brightness # None
           \/ pending_cooldown > 0
           \/ pr_did' = "learn")
        => prediction_ch' = prediction_ch]_vars

\* C11 (as stated): no edit-free call of the predictor changes the Dataset
C11_EditFreeKeepsDataset ==
    [][(process /\ user_changed_brightness = None) => entries' = entries]_vars

\* C11 (amended): the Dataset changes only on the call that learns a Pending
\* (no edit on the call, cooldown at 0); calls that buffer an edit, debounce
\* lux, count the cooldown down or predict leave every Entry as it is
C11_OnlyLearnChangesDataset ==
    [][entries' # entries
        => /\ pr_did' = "learn"
           /\ user_changed_brightness = None
           /\ pending_cooldown = 0
           /\ pending # None
           /\ entries' = learn(entries, unwrap(pending))]_vars

\* C11 witness: an edit-free call has just predicted from a learned Dataset,
\* two calls after the cooldown ran out
C11_Witness ==
    /\ pr_did = "predict"
    /\ edit_free = PENDING_COOLDOWN_RESET + 2
    /\ entries # <<>>
    /\ pending = None
    /\ prediction_ch # <<>>


(* ---------------- C12, C13: what interpolate predicts ---------------- *)

\* the points of the current lux at the current luma
current_points == points(entries, unwrap(lux), unwrap(luma))

\* the prediction a process() call has just sent
sent == prediction_ch'[Len(prediction_ch')]

RECURSIVE weight_from(_, _, _)
weight_from(pts, i, j) ==
    IF j > Len(pts) THEN <<1>>
    ELSE IF j = i THEN weight_from(pts, i, j + 1)
    ELSE big_mul(big(pts[j].d), weight_from(pts, i, j + 1))

\* S, the exact sum of the weights of the points from the i-th on
RECURSIVE weights_sum(_, _)
weights_sum(pts, i) ==
    IF i > Len(pts) THEN <<>>
    ELSE big_add(weight_from(pts, i, 1), weights_sum(pts, i + 1))

\* the exact sum of brightness times weight of the points from the i-th on
RECURSIVE weighted_sum(_, _)
weighted_sum(pts, i) ==
    IF i > Len(pts) THEN <<>>
    ELSE big_add(big_mul(big(pts[i].b), weight_from(pts, i, 1)),
                 weighted_sum(pts, i + 1))

\* q = floor(n / d) for naturals of any size
is_floor(q, n, d) ==
    /\ ~big_less(n, big_mul(big(q), d))
    /\ big_less(n, big_mul(big(q + 1), d))

\* the entries of lux lx have pairwise distinct luma
pairwise_distinct_luma(es, lx) ==
    \A i, j \in 1..Len(es):
        (i # j /\ es[i].lux = lx /\ es[j].lux = lx) => es[i].luma # es[j].luma

\* C13: a prediction over entries of pairwise distinct luma is the floor of
\* the exact weighted mean sum(b_i * P_i) / S
C13_FloorOfWeightedMean ==
    [][(/\ process_predict
        /\ Len(current_points) > 0
        /\ pairwise_distinct_luma(entries, unwrap(lux)))
        => is_floor(sent, weighted_sum(current_points, 1),
                    weights_sum(current_points, 1))]_vars


(* ---------------- C14, C15: transitions ---------------- *)

\* C14: when transition() clears a Target, the brightness the controller
\* wrote last (its cache) is the Target's desired value
C14_NoOvershoot ==
    [][step_transition_reached
        => unwrap(current) = unwrap(step_target).desired]_vars

\* the write steps a transition at brightness cur still needs to reach t
steps_left(t, cur) ==
    IF reached(t, cur) THEN 0
    ELSE div_ceil(abs(t.desired - cur), abs(t.step))

\* C15: a transition is never more than TRANSITION_MAX_MS write steps away
\* from its Target, and every write step leaves fewer steps than before, so
\* that the Target is reached and cleared within TRANSITION_MAX_MS writes
C15_TransitionCompletes ==
    [][step_transition_set
        => /\ steps_left(unwrap(target'), unwrap(current)) <= TRANSITION_MAX_MS
           /\ steps_left(unwrap(target'), unwrap(current'))
                < steps_left(unwrap(target'), unwrap(current))]_vars


(* ---------------- C16: the first adjust call ---------------- *)

\* the first call of adjust(), with any luma
first_call == first_adjust /\ \E lm \in Lumas: adjust(lm)

\* the process() of the first call: no process() has run before
first_process == pr_did = "new" /\ process

\* the edit-free call that finds the cooldown run out over a Pending learns it
learns_after_cooldown ==
    (/\ process
     /\ user_changed_brightness = None
     /\ edit_free = PENDING_COOLDOWN_RESET
     /\ pending # None)
    => /\ pr_did' = "learn"
       /\ entries' = learn(entries, unwrap(pending))

\* C16 (as stated): the first call takes one lux and one brightness off the
\* channels; with an empty Dataset that first brightness becomes the Pending
\* at the first lux and the call's luma and is learned after the cooldown;
\* with a non-empty Dataset the call buffers nothing and predicts
C16_FirstCall ==
    [][/\ first_call
          => /\ als_ch # <<>> /\ user_ch # <<>>
             /\ lux' = Some(Head(als_ch))
             /\ user_changed_brightness' =
                   IF entries = <<>> THEN Some(Head(user_ch)) ELSE None
       /\ first_process
          => IF entries = <<>>
             THEN pending' = Some(Entry(unwrap(lux), unwrap(luma),
                                        unwrap(user_changed_brightness)))
             ELSE pending' = None /\ pr_did' \in {"predict", "no_data"}
       /\ learns_after_cooldown]_vars

\* C16 (amended): as stated when the first brightness is the only value on
\* the user-edit channel; when edits are queued behind it, the last of them
\* takes its place: it becomes the Pending, with an empty and with a
\* non-empty Dataset, and the call does not predict
C16_FirstCallUnlessEdited ==
    [][/\ first_call
          => /\ als_ch # <<>> /\ user_ch # <<>>
             /\ lux' = Some(Head(als_ch))
             /\ user_changed_brightness' =
                   IF Len(user_ch) > 1 THEN Some(user_ch[Len(user_ch)])
                   ELSE IF entries = <<>> THEN Some(Head(user_ch))
                   ELSE None
       /\ first_process
          => IF user_changed_brightness # None
             THEN pending' = Some(Entry(unwrap(lux), unwrap(luma),
                                        unwrap(user_changed_brightness)))
             ELSE pending' = None /\ pr_did' \in {"predict", "no_data"}
       /\ learns_after_cooldown]_vars

\* C16 witness: the startup brightness was learned at the first lux and the
\* luma of the first call, and no edit was ever buffered
C16_Witness ==
    /\ pr_did = "learn"
    /\ Len(entries) = 1
    /\ last_edit = Some(entries[1].brightness)
    /\ actuator = entries[1].brightness
    /\ current = Some(actuator)
    /\ user_ch = <<>>


(* ---------------- C17, C18, C19: errors in the tasks of an output ---------------- *)

\* C17: after a permanent cancellation of an output's capture the program
\* runs on (the ALS producer and the tasks of the other outputs with it)
C17_OnlyThatOutputEnds ==
    [][capture_cancel_permanent => running']_vars

\* C18: a learn whose save fails leaves the predictor running, the call
\* returns and the predictor is ready for the next adjust call
C18_SaveFailureOnlyLogged ==
    [][learn_save_err => (running' /\ pr_pc' = "idle")]_vars

\* C19: after a failed luma computation the program runs on and the
\* capturer waits for its next frame
C19_LumaFailureOnlyLogged ==
    [][luma_percent_err => (running' /\ pr_pc' = pr_pc)]_vars


(* ---------------- C20: save and load of the Dataset ---------------- *)

count(s, e) == Cardinality({i \in DOMAIN s: s[i] = e})

same_multiset(a, b) ==
    /\ Len(a) = Len(b)
    /\ \A i \in DOMAIN a: count(a, a[i]) = count(b, a[i])

\* C20: after every save of the Dataset, loading the output's Dataset
\* yields the saved entries as a multiset
C20_SaveLoadRoundTrip ==
    [][(process_learn /\ stateful)
        => same_multiset(load(files', OutputName).entries, entries')]_vars


(* ---------------- C21: the file a save writes ---------------- *)

\* C21: every save writes the file that load reads for the output, and no
\* other file, whether the Dataset was created empty or loaded
C21_SaveWritesOutputFile ==
    [][(process_learn /\ stateful)
        => (/\ path(output_name) = path(OutputName)
            /\ \A f \in FileNames \ {path(OutputName)}: files'[f] = files[f])]_vars


(* ---------------- C22: the DDC mutex ---------------- *)

\* main() as a holder of DDC_MUTEX, beside the outputs' threads 1, 2, ...
MainThread == 0

\* the backlight threads in a VCP read or write
in_vcp == {o \in DdcOutputs: ddc_pc[o] \in {"get_vcp", "set_vcp"}}

\* main() is in the VCP read of get_max_brightness
main_in_vcp == main_pc[1] = "get_max_brightness"

\* C22: at most one VCP operation is in progress, and whoever is in one
\* holds DDC_MUTEX
C22_OneVcpAtATime ==
    /\ Cardinality(in_vcp) + (IF main_in_vcp THEN 1 ELSE 0) <= 1
    /\ \A o \in in_vcp: DDC_MUTEX = Some(o)
    /\ main_in_vcp => DDC_MUTEX = Some(MainThread)


(* ---------------- C23: what the manual predictor emits ---------------- *)

\* the reduction percentage of the table at the lux and luma of the call
reduction_percent ==
    IF interpolate(thresholds, unwrap(lux), unwrap(luma)) = None THEN 0
    ELSE unwrap(interpolate(thresholds, unwrap(lux), unwrap(luma)))

\* C23 as stated: the prediction is pre_reduction_brightness less r percent
\* of pre_reduction_brightness
C23_ReducesPreReduction ==
    [][manual_process_predict
        => sent = saturating_sub(unwrap(pre_reduction_brightness),
                     (unwrap(pre_reduction_brightness) * reduction_percent) \div 100)]_vars

\* C23, amended: the prediction is pre_reduction_brightness less r percent
\* of the brightness the call works with (last_brightness), and a call whose
\* brightness differs from last_brightness sets pre_reduction_brightness to
\* that brightness plus r percent of it
C23_ReducesCurrentBrightness ==
    /\ [][manual_process_predict
           => sent = saturating_sub(unwrap(pre_reduction_brightness),
                        (unwrap(last_brightness) * reduction_percent) \div 100)]_vars
    /\ [][manual_process_changed
           => pre_reduction_brightness' =
                 Some(current_brightness
                      + (current_brightness * reduction_percent) \div 100)]_vars

\* test_change_in_luma: 100 set at luma 50, the prediction at luma 80 is 89
C23_Witness ==
    /\ pr_did = "predict"
    /\ pre_reduction_brightness = Some(130)
    /\ last_brightness = Some(100)
    /\ prediction_ch = <<89>>


(* ---------------- C24: the Pending during a burst of edits ---------------- *)

\* C24: a call that sees edits takes the newest value drained; it makes the
\* Pending from its own lux and luma if there is none, else it replaces the
\* brightness only; and it resets the cooldown
C24_PendingFrozen ==
    /\ [][(\E lx \in Labels, lm \in ProcessLumas: process_drain(lx, lm))
           => (user_ch # <<>> => user_changed_brightness' = Some(user_ch[Len(user_ch)]))]_vars
    /\ [][process_user_changed
           => (/\ pending' # None
               /\ unwrap(pending').brightness = unwrap(user_changed_brightness)
               /\ unwrap(pending').lux =
                     (IF pending = None THEN unwrap(lux) ELSE unwrap(pending).lux)
               /\ unwrap(pending').luma =
                     (IF pending = None THEN unwrap(luma) ELSE unwrap(pending).luma)
               /\ pending_cooldown' = PENDING_COOLDOWN_RESET)]_vars

\* a call with another lux and luma than the Pending's has drained an edit
C24_Witness ==
    /\ pr_pc = "act"
    /\ pending = Some(Entry("dim", 66, 33))
    /\ lux = Some("bright") /\ luma = Some(36)
    /\ user_changed_brightness = Some(36)
    /\ last_edit = Some(33)


(* ---------------- C25: the cooldown after the last edit ---------------- *)

\* an edit-free process() call while a Pending is buffered
edit_free_call == process /\ user_changed_brightness = None /\ pending # None

\* C25: each of the 15 edit-free calls after the last edit counts the
\* cooldown down by one and leaves the Pending and the Dataset alone; the
\* 16th learns: no Pending, cooldown 0, the Pending is in the Dataset
C25_CooldownThenLearn ==
    /\ [][(edit_free_call /\ edit_free < PENDING_COOLDOWN_RESET)
           => (/\ pending_cooldown = PENDING_COOLDOWN_RESET - edit_free
               /\ pending_cooldown' = pending_cooldown - 1
               /\ pending' = pending
               /\ entries' = entries)]_vars
    /\ [][(edit_free_call /\ edit_free = PENDING_COOLDOWN_RESET)
           => (/\ pending' = None
               /\ pending_cooldown' = 0
               /\ \E i \in DOMAIN entries': entries'[i] = unwrap(pending))]_vars
    /\ [][edit_free_call => edit_free <= PENDING_COOLDOWN_RESET]_vars

\* the 16th edit-free call learned the Pending of a burst into a Dataset
\* that had an entry
C25_Witness ==
    /\ pr_did = "learn"
    /\ edit_free = PENDING_COOLDOWN_RESET + 1
    /\ pending = None /\ pending_cooldown = 0
    /\ learned = Some(Entry("dim", 66, 36))
    /\ before # <<>>
    /\ \E i \in DOMAIN entries: entries[i] = Entry("dim", 66, 36)


(* ---------------- C26: predictions use the entries of the current lux ---------------- *)

\* the entries of the Dataset at the lux of the call
own_entries == SelectSeq(entries, LAMBDA e: e.lux = unwrap(lux))

\* an entry of a lux that is never the current one
\* (test_predict_only_uses_data_for_current_als_profile)
OtherEntry == Entry("dark", 50, 100)

\* C26: without an entry of the current lux nothing is sent; else the value
\* sent is the one predicted from the entries of the current lux alone, and
\* a further entry of another lux does not change it
C26_OnlyCurrentLux ==
    [][process_predict
        => IF own_entries = <<>>
           THEN prediction_ch' = prediction_ch
           ELSE /\ prediction_ch' = Append(prediction_ch,
                      unwrap(interpolate(own_entries, unwrap(lux), unwrap(luma))))
                /\ interpolate(Append(entries, OtherEntry), unwrap(lux), unwrap(luma))
                      = interpolate(own_entries, unwrap(lux), unwrap(luma))]_vars

\* a prediction from a Dataset that holds entries of both labels
C26_Witness ==
    /\ pr_did = "predict"
    /\ prediction_ch # <<>>
    /\ \E i, j \in DOMAIN entries: entries[i].lux = "dim" /\ entries[j].lux = "bright"


(* ---------------- C27, C28: update_target ---------------- *)

\* whether st is the step of least size, in the direction of d, that covers
\* the way from cur to d in TRANSITION_MAX_MS steps
minimal_step(st, cur, d) ==
    /\ st # 0
    /\ (st > 0) = (d > cur)
    /\ abs(st) * TRANSITION_MAX_MS >= abs(d - cur)
    /\ (abs(st) - 1) * TRANSITION_MAX_MS < abs(d - cur)

\* C27: update_target(d) with d neither the current brightness nor the
\* Target's desired sets the Target to d with the minimal step
C27_MinimalStep ==
    [][\A d \in TargetDesired:
         (/\ test_update_target(d)
          /\ Some(d) # current
          /\ (target = None \/ unwrap(target).desired # d))
         => (/\ target' # None
             /\ unwrap(target').desired = d
             /\ minimal_step(unwrap(target').step, unwrap(current), d))]_vars

\* 10000 -> 8433 gives step -8
C27_Witness ==
    /\ bc_did = "target_set"
    /\ current = Some(10000)
    /\ target = Some(Target(8433, 0 - 8))

\* C28: update_target(d) with d the Target's desired, or d the current
\* brightness, leaves the Target as it is
C28_TargetKept ==
    [][\A d \in TargetDesired:
         (/\ test_update_target(d)
          /\ (Some(d) = current \/ (target # None /\ unwrap(target).desired = d)))
         => target' = target]_vars

\* update_target(current) was called during a transition to another value
C28_Witness ==
    /\ bc_did = "kept_current"
    /\ target # None
    /\ Some(unwrap(target).desired) # current


(* ---------------- C29: errors of the actuator ---------------- *)

\* C29: a step whose read fails writes nothing and keeps current and the
\* Target; a step whose write fails keeps current and the Target that
\* update_target left, and the next step finds the transition to go on with:
\* the Target is there and the brightness it reads is the cached one
C29_ErrorsSkipTheTick ==
    /\ [][step_get_err
           => (actuator' = actuator /\ current' = current /\ target' = target)]_vars
    /\ [][step_transition_set_err
           => (/\ current' = current
               /\ target' = step_target
               /\ target' # None
               /\ ~user_changed(actuator', current'))]_vars


(* ---------------- C30: the controller's own writes and the user's ---------------- *)

\* nothing is under way that would make a later get() read the file
bl_quiescent ==
    /\ ~events
    /\ dbus_ch = <<>>
    /\ target = None
    /\ prediction_ch = <<>>
    /\ cached # None /\ current = cached

\* C30: after the first reading, the controller publishes a value only if
\* the brightness was written from outside since it last published; and a
\* value written from outside that nothing overwrites does not stay unread
\* with nothing under way
C30_OwnWritesAreNotEdits ==
    /\ [][(bl_step_update_current /\ current # None) => external]_vars
    /\ [](~(bl_quiescent /\ external /\ cached # Some(actuator)))


(* ---- channel_ext.rs: a channel, its producer and a consumer that calls
   recv_maybe_last; is_empty(), len() and every recv() are steps of their
   own, the producer sends in between.  The values sent are 1, 2, ... ---- *)

\* the values the producer sends
MaxSent == 5

\* the variables of one output's closed loop
loopVars == <<actVars, bcVars, chVars, prVars, dataVars, ddcVars, blVars, bcHist,
              prHist>>

\* a faulty recv_last that keeps one message too many
to_discard_short(len) == IF len > 2 THEN len - 2 ELSE 0

\* recv_last: the messages removed before the last recv()
to_discard(len) == IF len > 1 THEN len - 1 ELSE 0

\* Sender::send
tx_send ==
    /\ receiver.sent < MaxSent
    /\ receiver' = [receiver EXCEPT !.ch = Append(@, receiver.sent + 1),
                                    !.sent = @ + 1,
                                    !.raced = @ \/ receiver.pc # "idle"]
    /\ UNCHANGED <<loopVars, capturer, als_controller, vulkan>>

\* recv_maybe_last on an empty channel: Ok(None)
recv_maybe_last_empty ==
    /\ receiver.pc = "idle"
    /\ receiver.ch = <<>>
    /\ receiver' = [receiver EXCEPT !.out = None, !.raced = FALSE]
    /\ UNCHANGED <<loopVars, capturer, als_controller, vulkan>>

\* recv_maybe_last on a channel that is not empty: recv_last is called
recv_maybe_last_call ==
    /\ receiver.pc = "idle"
    /\ receiver.ch # <<>>
    /\ receiver' = [receiver EXCEPT !.pc = "len", !.raced = FALSE]
    /\ UNCHANGED <<loopVars, capturer, als_controller, vulkan>>

\* recv_last: let len = self.len()
recv_last_len ==
    /\ receiver.pc = "len"
    /\ receiver' = [receiver EXCEPT
                        !.discard = to_discard(Len(receiver.ch)),
                        !.newest = receiver.ch[Len(receiver.ch)],
                        !.pc = IF to_discard(Len(receiver.ch)) > 0
                               THEN "discard" ELSE "recv"]
    /\ UNCHANGED <<loopVars, capturer, als_controller, vulkan>>

\* recv_last: one recv() of the loop that removes the first len - 1 messages
recv_last_discard ==
    /\ receiver.pc = "discard"
    /\ receiver.ch # <<>>
    /\ receiver' = [receiver EXCEPT
                        !.ch = Tail(@),
                        !.discard = @ - 1,
                        !.pc = IF receiver.discard = 1 THEN "recv" ELSE "discard"]
    /\ UNCHANGED <<loopVars, capturer, als_controller, vulkan>>

\* recv_last: the last recv(), whose value is returned
recv_last_recv ==
    /\ receiver.pc = "recv"
    /\ receiver.ch # <<>>
    /\ receiver' = [receiver EXCEPT
                        !.ch = Tail(@),
                        !.out = Some(Head(receiver.ch)),
                        !.last = Head(receiver.ch),
                        !.pc = "idle"]
    /\ UNCHANGED <<loopVars, capturer, als_controller, vulkan>>

InitChannel ==
    /\ InitOutput("adaptive", <<>>, MinBrightness, 0, MaxBrightness)
    /\ ddc_parked
    /\ backlight_new(TRUE)
    /\ others_new

NextChannel ==
    \/ tx_send
    \/ recv_maybe_last_empty
    \/ recv_maybe_last_call
    \/ recv_last_len
    \/ recv_last_discard
    \/ recv_last_recv

SpecChannel == InitChannel /\ [][NextChannel]_vars

(* ---------------- C31: recv_maybe_last ---------------- *)

\* recv_maybe_last returns None exactly on an empty channel, and the values
\* it returns are in the order they were sent
recv_in_order ==
    /\ [][recv_maybe_last_empty => receiver'.out = None]_vars
    /\ [][recv_last_recv => (/\ receiver'.out # None
                             /\ unwrap(receiver'.out) > receiver.last)]_vars

\* C31 as stated: recv_maybe_last returns None on an empty channel, else the
\* newest value sent and the channel is empty afterwards; what it returns is
\* in the order sent, also when the producer sends during the drain
C31_NewestAndEmpty ==
    /\ recv_in_order
    /\ [][recv_last_recv => (/\ receiver'.out = Some(receiver.sent)
                             /\ receiver'.ch = <<>>)]_vars

\* C31, amended: recv_maybe_last returns None on an empty channel, else the
\* value that was newest when recv_last read len(), with all older values
\* discarded; the values sent during the drain stay queued, and without such
\* a send the channel is empty afterwards; what it returns is in the order
\* sent
C31_NewestAtLen ==
    /\ recv_in_order
    /\ [][recv_last_recv
           => (/\ receiver'.out = Some(receiver.newest)
               /\ \A i \in 1..Len(receiver'.ch): receiver'.ch[i] > receiver.newest
               /\ Len(receiver'.ch) = receiver.sent - receiver.newest
               /\ (~receiver.raced => receiver'.ch = <<>>))]_vars

\* a drain that discarded older values has returned while the producer sent
C31_Witness ==
    /\ receiver.pc = "idle"
    /\ receiver.raced
    /\ receiver.out # None
    /\ receiver.last > 1
    /\ receiver.ch # <<>>


(* ---- frame/capturer: run()'s loop and the handlers of the frame events of
   wlr-export-dmabuf.  blocking_dispatch returns after one event or goes on
   with the next one of its batch.  A request the compositor has not ended
   is "requested" until its Frame event was handled, then "frame". ---- *)

\* the capture requests of a run
MaxFrames == 3

\* the sequence s without its i-th element
remove_at(s, i) == SubSeq(s, 1, i - 1) \o SubSeq(s, i + 1, Len(s))

\* the loop's conditions for a request: `if !self.is_processing_frame` where
\* the loop has the flag, and `if let Some(output) = self.output`
may_request ==
    /\ capturer.flag => ~capturer.is_processing_frame
    /\ capturer.output

\* the loop issues capture_output and calls blocking_dispatch
capture_output ==
    /\ capturer.pc = "loop"
    /\ may_request
    /\ capturer.requested < MaxFrames
    /\ capturer' = [capturer EXCEPT
                        !.frames = Append(@, "requested"),
                        !.requested = @ + 1,
                        !.is_processing_frame = capturer.flag,
                        !.pc = "dispatch"]
    /\ UNCHANGED <<loopVars, receiver, als_controller, vulkan>>

\* the loop issues no request and calls blocking_dispatch
capture_skip ==
    /\ capturer.pc = "loop"
    /\ ~may_request
    /\ capturer' = [capturer EXCEPT !.pc = "dispatch"]
    /\ UNCHANGED <<loopVars, receiver, als_controller, vulkan>>

\* Event::Frame of request i
event_frame(i, pc) ==
    /\ capturer.pc = "dispatch"
    /\ capturer.frames[i] = "requested"
    /\ capturer' = [capturer EXCEPT !.frames[i] = "frame", !.pc = pc]
    /\ UNCHANGED <<loopVars, receiver, als_controller, vulkan>>

\* Event::Ready of request i: luma, adjust(luma), frame.destroy(), sleep
event_ready(i, pc) ==
    /\ capturer.pc = "dispatch"
    /\ capturer.frames[i] = "frame"
    /\ capturer' = [capturer EXCEPT
                        !.frames = remove_at(@, i),
                        !.ready = @ + 1,
                        !.adjusted = @ + 1,
                        !.is_processing_frame = FALSE,
                        !.pc = pc]
    /\ UNCHANGED <<loopVars, receiver, als_controller, vulkan>>

\* Event::Cancel of request i: frame.destroy(), sleep
event_cancel(i, pc) ==
    /\ capturer.pc = "dispatch"
    /\ capturer' = [capturer EXCEPT
                        !.frames = remove_at(@, i),
                        !.cancelled = @ + 1,
                        !.is_processing_frame = FALSE,
                        !.pc = pc]
    /\ UNCHANGED <<loopVars, receiver, als_controller, vulkan>>

\* wl_registry GlobalRemove of the bound output
event_global_remove ==
    /\ capturer.pc = "dispatch"
    /\ capturer.output
    /\ capturer' = [capturer EXCEPT !.output = FALSE, !.pc = "loop"]
    /\ UNCHANGED <<loopVars, receiver, als_controller, vulkan>>

\* wl_output Description of an output that matches, none being bound
event_description ==
    /\ capturer.pc = "dispatch"
    /\ ~capturer.output
    /\ capturer' = [capturer EXCEPT !.output = TRUE, !.pc = "loop"]
    /\ UNCHANGED <<loopVars, receiver, als_controller, vulkan>>

\* an event no handler acts on (a wl_registry Global of another interface,
\* a wl_output event of another output)
event_other ==
    /\ capturer.pc = "dispatch"
    /\ capturer' = [capturer EXCEPT !.pc = "loop"]
    /\ UNCHANGED <<loopVars, receiver, als_controller, vulkan>>

InitCapturer ==
    \E flag \in BOOLEAN:
        /\ InitOutput("adaptive", <<>>, MinBrightness, 0, MaxBrightness)
        /\ ddc_parked
        /\ backlight_new(TRUE)
        /\ receiver_new
        /\ capturer_new(flag)
        /\ als_controller_new
        /\ vulkan_new

NextCapturer ==
    \/ capture_output
    \/ capture_skip
    \/ \E i \in 1..Len(capturer.frames), pc \in {"dispatch", "loop"}:
          \/ event_frame(i, pc)
          \/ event_ready(i, pc)
          \/ event_cancel(i, pc)
    \/ event_global_remove
    \/ event_description
    \/ event_other

SpecCapturer == InitCapturer /\ [][NextCapturer]_vars

(* ---------------- C32: one capture request at a time ---------------- *)

\* adjust is called once for each Ready and not for a Cancel, and after a
\* Cancel that ended the only request the loop requests a frame again
adjust_per_ready ==
    /\ [](capturer.adjusted = capturer.ready)
    /\ [][\A i \in 1..Len(capturer.frames):
            (event_cancel(i, "loop") /\ capturer.output)
            => (capturer'.pc = "loop" /\ may_request')]_vars

\* C32: at most one capture request is outstanding, adjust is called once
\* for each Ready frame and never for a cancelled one, and after a Cancel
\* the capturer requests a frame again
C32_OneRequestOutstanding ==
    /\ [](Len(capturer.frames) <= 1)
    /\ adjust_per_ready


(* ---- als/controller.rs: step() polls the source and sends the label to
   the channels of value_txs one after the other; the predictor of each
   output receives what is queued on its channel ---- *)

\* the polls of a run
MaxPolls == 3

\* the labels the source returns
PollLabels == {"dark", "bright"}

\* a faulty for_each that stops after the first channel
chan_after_first(k) == 0

\* value_txs.iter().for_each: the channel after the k-th, 0 after the last
chan_after(k) == IF k = Cardinality(Outputs) THEN 0 ELSE k + 1

\* step(): als.get() is Ok(label)
als_get_ok(label) ==
    /\ als_controller.pc = 0
    /\ Len(als_controller.polled) + als_controller.errors < MaxPolls
    /\ als_controller' = [als_controller EXCEPT
                              !.value = label,
                              !.polled = Append(@, label),
                              !.pc = 1]
    /\ UNCHANGED <<loopVars, receiver, capturer, vulkan>>

\* step(): als.get() is Err, which is logged; then the sleep
als_get_err ==
    /\ als_controller.pc = 0
    /\ Len(als_controller.polled) + als_controller.errors < MaxPolls
    /\ als_controller' = [als_controller EXCEPT !.errors = @ + 1]
    /\ UNCHANGED <<loopVars, receiver, capturer, vulkan>>

\* step(): chan.send(value.clone()) to the next channel; after the last one
\* the sleep
als_chan_send ==
    /\ als_controller.pc > 0
    /\ als_controller' = [als_controller EXCEPT
                              !.value_txs[als_controller.pc] =
                                  Append(@, als_controller.value),
                              !.pc = chan_after(@)]
    /\ UNCHANGED <<loopVars, receiver, capturer, vulkan>>

\* the predictor of output o receives what its channel holds
\* (recv_maybe_last: every queued label, in order)
als_rx_recv(o) ==
    /\ als_controller.value_txs[o] # <<>>
    /\ als_controller' = [als_controller EXCEPT
                              !.received[o] = @ \o als_controller.value_txs[o],
                              !.value_txs[o] = <<>>]
    /\ UNCHANGED <<loopVars, receiver, capturer, vulkan>>

InitAlsController ==
    /\ InitOutput("adaptive", <<>>, MinBrightness, 0, MaxBrightness)
    /\ ddc_parked
    /\ backlight_new(TRUE)
    /\ others_new

NextAlsController ==
    \/ \E label \in PollLabels: als_get_ok(label)
    \/ als_get_err
    \/ als_chan_send
    \/ \E o \in Outputs: als_rx_recv(o)

SpecAlsController == InitAlsController /\ [][NextAlsController]_vars

(* ---------------- C33: the same labels to every output ---------------- *)

\* the labels sent so far on the channel of output o
delivered(o) == als_controller.received[o] \o als_controller.value_txs[o]

\* s is a prefix of t
is_prefix(s, t) == Len(s) <= Len(t) /\ SubSeq(t, 1, Len(s)) = s

\* C33: every label polled is sent to every channel in the order polled:
\* between two steps each channel was sent exactly the labels polled, during
\* the sends no channel is more than the current label behind, what a
\* predictor has received is a prefix of the labels polled; a poll error
\* sends nothing and the next poll follows
C33_SameLabelsToAll ==
    /\ [](\A o \in Outputs:
            /\ is_prefix(als_controller.received[o], als_controller.polled)
            /\ is_prefix(delivered(o), als_controller.polled)
            /\ Len(delivered(o)) >= Len(als_controller.polled) - 1
            /\ als_controller.pc = 0 => delivered(o) = als_controller.polled)
    /\ [][als_get_err => (/\ als_controller'.value_txs = als_controller.value_txs
                          /\ als_controller'.pc = 0)]_vars

\* two different labels were polled and sent to both channels, a poll
\* failed, and both predictors have received both labels
C33_Witness ==
    /\ als_controller.pc = 0
    /\ als_controller.errors > 0
    /\ Len(als_controller.polled) = 2
    /\ als_controller.polled[1] # als_controller.polled[2]
    /\ \A o \in Outputs: als_controller.received[o] = als_controller.polled


(* ---- als/mod.rs: find_profile, applied by the get() of the iio and the
   webcam source to the raw value read.  A HashMap<u64, String> is a
   function from its keys to their labels. ---- *)

\* the keys and labels of the threshold maps, and the raw values read
ProfileKeys == {0, 5, 10, 20}

ProfileLabels == {"dark", "dim", "bright"}

ProfileRaws == {0, 2, 4, 5, 9, 10, 19, 20, 200}

\* every non-empty threshold map over the keys and the labels
ProfileThresholds ==
    UNION {[K -> ProfileLabels] : K \in (SUBSET ProfileKeys) \ {{}}}

\* .iter().sorted_by_key(|(lux, _)| *lux): the keys in ascending order
RECURSIVE sorted_keys(_)
sorted_keys(K) ==
    IF K = {} THEN <<>>
    ELSE LET least == CHOOSE k \in K: \A j \in K: k <= j
         IN <<least>> \o sorted_keys(K \ {least})

\* .rev()
rev(s) == [i \in 1..Len(s) |-> s[Len(s) + 1 - i]]

\* a faulty search that falls back to the first element
find_or_first(s, raw) ==
    IF s = <<>> THEN None
    ELSE IF \E i \in 1..Len(s): raw >= s[i]
         THEN Some(s[CHOOSE i \in 1..Len(s):
                         raw >= s[i] /\ \A j \in 1..(i - 1): ~(raw >= s[j])])
         ELSE Some(s[1])

\* Itertools::find_or_last(|(lux, _)| raw >= **lux): the first element the
\* predicate holds for, the last element if there is none, None if empty
find_or_last(s, raw) ==
    IF s = <<>> THEN None
    ELSE IF \E i \in 1..Len(s): raw >= s[i]
         THEN Some(s[CHOOSE i \in 1..Len(s):
                         raw >= s[i] /\ \A j \in 1..(i - 1): ~(raw >= s[j])])
         ELSE Some(s[Len(s)])

\* find_profile; "" stands for the panic on an empty map
find_profile(raw, m) ==
    LET found == find_or_last(rev(sorted_keys(DOMAIN m)), raw)
    IN IF found = None THEN "" ELSE m[unwrap(found)]

\* iio::Als::get / webcam::Als::get with get_raw() = Ok(raw)
iio_get(raw) ==
    /\ als_controller.pc = 0
    /\ als_controller' = [als_controller EXCEPT
                              !.raw = raw,
                              !.value = find_profile(raw, als_controller.thresholds)]
    /\ UNCHANGED <<loopVars, receiver, capturer, vulkan>>

InitFindProfile ==
    /\ InitOutput("adaptive", <<>>, MinBrightness, 0, MaxBrightness)
    /\ ddc_parked
    /\ backlight_new(TRUE)
    /\ receiver_new
    /\ capturer_new(TRUE)
    /\ vulkan_new
    /\ \E m \in ProfileThresholds:
          als_controller =
              [pc |-> 0, value |-> "", value_txs |-> [o \in Outputs |-> <<>>],
               polled |-> <<>>, received |-> [o \in Outputs |-> <<>>],
               errors |-> 0, thresholds |-> m, raw |-> 0]

NextFindProfile == \E raw \in ProfileRaws: iio_get(raw)

SpecFindProfile == InitFindProfile /\ [][NextFindProfile]_vars

(* ---------------- C34: find_profile ---------------- *)

\* the thresholds that are <= raw
at_most(raw, m) == {k \in DOMAIN m: k <= raw}

\* C34: find_profile returns the label of the greatest threshold <= raw, the
\* label of the smallest threshold when raw is below all of them, and with a
\* single threshold always its label
C34_GreatestThresholdAtMostRaw ==
    als_controller.value # "" =>
        LET m == als_controller.thresholds
            raw == als_controller.raw
        IN /\ at_most(raw, m) # {} =>
                 \E k \in at_most(raw, m):
                     /\ \A j \in at_most(raw, m): j <= k
                     /\ als_controller.value = m[k]
           /\ at_most(raw, m) = {} =>
                 \E k \in DOMAIN m:
                     /\ \A j \in DOMAIN m: k <= j
                     /\ als_controller.value = m[k]
           /\ Cardinality(DOMAIN m) = 1 =>
                 \A k \in DOMAIN m: als_controller.value = m[k]

\* a raw value below all of three thresholds was looked up
C34_Witness ==
    /\ als_controller.value # ""
    /\ Cardinality(DOMAIN als_controller.thresholds) = 3
    /\ at_most(als_controller.raw, als_controller.thresholds) = {}


(* ---------------- C35: the manual predictor gives back what was set ---------------- *)

Resolutions == {<<1920, 1080>>, <<2560, 1440>>, <<1280, 720>>}

\* the lumas compute_perceived_lightness_percent returns
VulkanLumas == {0, 25, 50, 75, 100}

\* the frames of a run
MaxLumaFrames == 8

\* luma_percent(frame) while no work image exists: init_image(frame) creates
\* it for the frame's resolution, then the luma is computed
luma_percent_init(res, lm) ==
    /\ ~vulkan.panicked
    /\ vulkan.frames < MaxLumaFrames
    /\ ~vulkan.image
    /\ vulkan' = [vulkan EXCEPT
                      !.image = TRUE,
                      !.image_resolution = Some(res),
                      !.frames = @ + 1,
                      !.frame = res,
                      !.luma = Some(lm)]
    /\ UNCHANGED <<loopVars, receiver, capturer, als_controller>>

\* luma_percent(frame), the work image has the frame's resolution
luma_percent_same(res, lm) ==
    /\ ~vulkan.panicked
    /\ vulkan.frames < MaxLumaFrames
    /\ vulkan.image
    /\ vulkan.image_resolution = Some(res)
    /\ vulkan' = [vulkan EXCEPT
                      !.frames = @ + 1,
                      !.frame = res,
                      !.luma = Some(lm)]
    /\ UNCHANGED <<loopVars, receiver, capturer, als_controller>>

\* luma_percent(frame), the work image has another resolution: assert_eq!
\* fails ("Handling screen resolution change is not supported yet")
luma_percent_changed(res) ==
    /\ ~vulkan.panicked
    /\ vulkan.frames < MaxLumaFrames
    /\ vulkan.image
    /\ vulkan.image_resolution # Some(res)
    /\ vulkan' = [vulkan EXCEPT
                      !.frames = @ + 1,
                      !.frame = res,
                      !.luma = None,
                      !.panicked = TRUE]
    /\ UNCHANGED <<loopVars, receiver, capturer, als_controller>>

InitVulkan ==
    /\ InitOutput("adaptive", <<>>, MinBrightness, 0, MaxBrightness)
    /\ ddc_parked
    /\ backlight_new(TRUE)
    /\ others_new

NextVulkan ==
    \E res \in Resolutions:
        \/ \E lm \in VulkanLumas: luma_percent_init(res, lm)
        \/ \E lm \in VulkanLumas: luma_percent_same(res, lm)
        \/ luma_percent_changed(res)

SpecVulkan == InitVulkan /\ [][NextVulkan]_vars

(* ---------------- C36: a frame of another resolution ---------------- *)

\* C36: for a frame whose resolution differs from the work image's,
\* luma_percent re-creates the work image for the frame's resolution and
\* returns a luma; the work image always has the resolution of the frame
\* being processed
C36_RecreatedOnResolutionChange ==
    /\ [][\A res \in Resolutions:
            luma_percent_changed(res)
            => (/\ vulkan'.image_resolution = Some(res)
                /\ vulkan'.luma # None
                /\ ~vulkan'.panicked)]_vars
    /\ [](vulkan.frames > 0 => vulkan.image_resolution = Some(vulkan.frame))

(* ---- the brightness controller under a predictor that keeps predicting
   from a Dataset of one entry: whatever the luma, predict() sends the
   brightness of that entry. Nobody edits the brightness, the reads and
   writes of the backlight succeed; run() calls step() for ever and the
   predictor predicts on every frame ---- *)

\* the brightness of the one entry, all within [min_brightness, max_brightness]
SettleDesired == {MinBrightness, 9473, TransitionStart, 10413, TransitionMax}

\* the lumas of the frames
SettleLumas == {0, 50}

\* the value predict() sends
settle_desired == entries[1].brightness

\* Controller::predict of the adaptive predictor on a frame of luma lm:
\* interpolate() over the Dataset, sent to the brightness controller
settle_predict(lm) ==
    /\ Len(prediction_ch) < MaxQueue
    /\ interpolate(entries, "bright", lm) # None
    /\ prediction_ch' = Append(prediction_ch,
                               unwrap(interpolate(entries, "bright", lm)))
    /\ prediction_stale' = Append(prediction_stale, FALSE)
    /\ UNCHANGED <<actVars, bcVars, user_ch, als_ch, prVars, bc_did,
                   target_stale, prHist, stateful, output_name, files,
                   ddcVars, blVars,
                   otherVars>>

\* what settle_predict does whatever the luma: with one entry in the
\* Dataset, interpolate() is the brightness of that entry
settle_send ==
    /\ Len(prediction_ch) < MaxQueue
    /\ prediction_ch' = Append(prediction_ch, settle_desired)
    /\ prediction_stale' = Append(prediction_stale, FALSE)
    /\ UNCHANGED <<actVars, bcVars, user_ch, als_ch, prVars, bc_did,
                   target_stale, prHist, stateful, output_name, files,
                   ddcVars, blVars,
                   otherVars>>

InitSettle ==
    \E lo \in {0, MinBrightness}, d \in SettleDesired:
       /\ stateful = TRUE
       /\ ddc_parked
       /\ backlight_new(TRUE)
       /\ others_new
       /\ files = [f \in FileNames |-> <<>>]
       /\ entries = <<Entry("bright", 0, d)>>
       /\ output_name = OutputName
       /\ actuator = TransitionStart /\ min_brightness = lo
       /\ max_brightness = TransitionMax
       /\ current = None /\ target = None
       /\ prediction_ch = <<>> /\ user_ch = <<>> /\ als_ch = <<>>
       /\ variant = "adaptive" /\ thresholds = <<>>
       /\ pending_cooldown = 0 /\ pending = None
       /\ initial_brightness = None
       /\ last_als = None /\ next_als = None /\ next_als_cooldown = 0
       /\ last_brightness = None /\ pre_reduction_brightness = None
       /\ pr_pc = "idle" /\ lux = None /\ luma = None
       /\ user_changed_brightness = None
       /\ bc_did = "new"
       /\ prediction_stale = <<>> /\ target_stale = FALSE
       /\ pr_did = "new" /\ edit_free = 0 /\ last_edit = None
       /\ run_label = None /\ run_len = 0 /\ lux_changed = FALSE
       /\ before = <<>> /\ learned = None

\* step() without a failing read or write
settle_step ==
    \/ step_update_current
    \/ step_transition_reached
    \/ step_transition_set
    \/ step_sleep

NextSettle ==
    \/ \E lm \in SettleLumas: settle_predict(lm)
    \/ step_update_current
    \/ step_transition_reached
    \/ step_transition_set
    \/ step_sleep

SpecSettle ==
    /\ InitSettle
    /\ [][NextSettle]_vars
    /\ WF_vars(settle_step)
    /\ WF_vars(settle_send)

\* the brightness is the predicted value and no transition is under way
settled ==
    /\ actuator = settle_desired
    /\ current = Some(settle_desired)
    /\ target = None

\* C37: without user edits and with the predictor sending the same value d
\* within [min_brightness, max_brightness] again and again, the brightness
\* eventually is d with the Target cleared and stays so, and once that is so
\* the controller writes the backlight no more
C37_SettlesAtDesired ==
    /\ [][(\E lm \in SettleLumas: settle_predict(lm)) => settle_send]_vars
    /\ <>[]settled
    /\ [][settled => (bc_did' # "set" /\ actuator' = actuator /\ settled')]_vars

\* the Target was cleared one above the predicted value, a new Target stepped
\* back by one, and the brightness is settled
C37_Witness ==
    /\ settled
    /\ settle_desired = 10413
    /\ bc_did = "other"
    /\ prediction_ch # <<>>

(* ---- the predictions of the adaptive predictor over a Dataset the user
   taught the same brightness on several screen contents: the harness of
   SpecPredict, from an empty Dataset ---- *)

\* what the user taught: the lowest brightness at three lumas, and one more
\* brightness
FlatPending ==
    {Entry("dim", 0, MinBrightness), Entry("dim", 7, MinBrightness),
     Entry("dim", 21, MinBrightness), Entry("dim", 63, MaxBrightness)}

FlatLumas == {10, 42, 66}

InitFlat == InitPredict /\ entries = <<>>

NextFlat ==
    \/ \E p \in FlatPending: set_pending(p)
    \/ process_learn
    \/ \E lm \in FlatLumas: set_predict("dim", lm)
    \/ process_predict

SpecFlat == InitFlat /\ [][NextFlat]_vars

\* the least brightness of the points from the i-th on
RECURSIVE min_b(_, _)
min_b(pts, i) ==
    IF i = Len(pts) THEN pts[i].b
    ELSE IF pts[i].b < min_b(pts, i + 1) THEN pts[i].b ELSE min_b(pts, i + 1)

\* the greatest brightness of the points from the i-th on
RECURSIVE max_b(_, _)
max_b(pts, i) ==
    IF i = Len(pts) THEN pts[i].b
    ELSE IF pts[i].b > max_b(pts, i + 1) THEN pts[i].b ELSE max_b(pts, i + 1)

\* C38: a prediction over entries of pairwise distinct luma is not below the
\* least and not above the greatest brightness stored for the current lux
C38_WithinStoredRange ==
    [][(/\ process_predict
        /\ Len(current_points) > 0
        /\ pairwise_distinct_luma(entries, unwrap(lux)))
        => /\ min_b(current_points, 1) <= sent
           /\ sent <= max_b(current_points, 1)]_vars

(* ---------------- C39: the counters of the adaptive predictor ---------------- *)

\* C39: once the first adjust() is through, pending_cooldown and
\* next_als_cooldown are within 0..15, a running pending_cooldown has a
\* Pending, a running next_als_cooldown has a candidate lux, and the
\* effective lux is known in process(); and the debouncer of any adjust()
\* that can run leaves the effective lux known, whatever the ALS channel holds
C39_CountersAndLux ==
    /\ ~first_adjust =>
           /\ pending_cooldown \in 0..PENDING_COOLDOWN_RESET
           /\ next_als_cooldown \in 0..NEXT_ALS_COOLDOWN_RESET
           /\ pending_cooldown > 0 => pending # None
           /\ next_als_cooldown > 0 => next_als # None
           /\ pr_pc = "act" => lux = last_als
    /\ (pr_pc = "idle" /\ (first_adjust => als_ch # <<>>))
           => adjust_debounced.last_als # None

\* process() runs with the cooldown of a buffered edit and the cooldown of a
\* candidate lux both under way
C39_Witness ==
    /\ ~first_adjust
    /\ pr_pc = "act"
    /\ pending # None
    /\ pending_cooldown \in 1..(PENDING_COOLDOWN_RESET - 1)
    /\ next_als # None /\ next_als # last_als
    /\ next_als_cooldown \in 1..(NEXT_ALS_COOLDOWN_RESET - 1)

(* ---------------- C40: the Target of the brightness controller ---------------- *)

\* step() is past its check for a user edit: update_target and transition
\* may run
past_user_check == ~user_changed(actuator, current)

\* C40: a Target is there only while the cached brightness is known, its step
\* is not 0, and a step() that makes a Target gives it the step that leads
\* from the cached brightness towards desired; update_target and transition
\* run with the cached brightness known
C40_TargetHasDirection ==
    /\ [](target # None => (current # None /\ unwrap(target).step # 0))
    /\ [](past_user_check => current # None)
    /\ [][(target' # None /\ target' # target)
           => /\ current # None
              /\ unwrap(target').desired # unwrap(current)
              /\ (unwrap(target').step > 0)
                    <=> (unwrap(target').desired > unwrap(current))]_vars

\* a transition downwards in steps of more than one is under way
C40_Witness ==
    /\ target # None
    /\ unwrap(target).step < 0 - 1
    /\ bc_did = "set"
    /\ unwrap(current) > unwrap(target).desired

====
